---- MODULE Spec2Model ----
(***************************************************************************)
(* Model of the OLVM builder's resilient orchestration layer               *)
(* (builder/olvm): the ConnectionWrapper (connection_wrapper.go) and the   *)
(* pipeline steps that issue remote calls through it.                      *)
(*                                                                         *)
(* Connection handles are numbered 1, 2, ... in the order they are built.  *)
(* Every outcome of the remote side (Test, Build, a remote call) is chosen *)
(* nondeterministically.                                                   *)
(***************************************************************************)
EXTENDS Integers, Sequences, FiniteSets, TLC

\* ------------------------------------------------------------------ bounds
\* largest positive max_retries explored
MaxRetriesBound == 3
\* number of ExecuteWithReconnect calls a client makes in Spec
MaxCalls == 2
\* number of connection handles the remote side lets the build create
MaxHandles == 4
\* number of sleeps a wait for a state is followed through
MaxPolls == 2
\* number of times in a row Cleanup of stepCreateVM is invoked directly
MaxCleanups == 2
\* longest script of the refresh closure handed to WaitForState
MaxStub == 3
\* most vNIC profiles in a listing
MaxProfiles == 2

\* ------------------------------------------------------- errors and results
\* error values an operation or a probe can return (nil = success)
Errors == {"timeout", "fault"}

Results == {"nil"} \cup Errors

\* outcomes of one reconnect(): success, Build() error, Test() error
ReconnectOutcomes == {"ok", "build_failed", "test_failed"}

\* max_retries values a configuration can carry: NewConfig turns 0 into 4
\* and accepts every other integer, negative ones included
MaxRetriesValues == {-1} \cup (1 .. MaxRetriesBound)

VARIABLES
    MaxRetries,   \* cw.config.MaxRetries
    connection,   \* cw.connection: the handle the wrapper holds
    nBuilt,       \* number of handles built so far (handles are 1..nBuilt)
    closed,       \* handles on which Close() has been called
    pc,           \* position of the current ExecuteWithReconnect call
    conn,         \* local variable conn of ExecuteWithReconnect
    attempt,      \* loop variable attempt of ExecuteWithReconnect
    err,          \* the error ExecuteWithReconnect hands back ("nil" if none)
    ret,          \* source line of the return statement taken (0: not returned)
    trace,        \* calls made by the current wrapper call, in order: Test,
                  \* Close, Build, operation(conn) with the handle passed, Sleep
    nCalls,       \* number of ExecuteWithReconnect calls started
    op,           \* the operation closure of the current call
    svc,          \* handle behind the service object a step keeps in a local
    lastCall,     \* the last remote request sent by step code
    phase,        \* Builder.Run: "init", "run" (steps running), "done"
    step,         \* index in Steps of the step whose Run is executing
    site,         \* index in the step's Program of the next remote call
    ctxConn,      \* the state bag's "conn" entry
    failure,      \* the state bag's "error" entry (NoFailure if not set)
    cerr,         \* the error value handed to isRetryableError
    cres,         \* its classification: "none" until isRetryableError returns
    runs,         \* names of the steps whose Run was invoked, in order
    cleanups,     \* names of the steps whose Cleanup was invoked, in order
    cpc,          \* stepCreateVM.Cleanup: the call it is at ("none": not in it)
    polls,        \* WaitForState: sleeps of the wait in progress
    vmId,         \* the state bag's "vm_id" entry ("absent" if not set)
    templateId,   \* whether the state bag has a "template_id" entry
    cleanupVM,    \* config.CleanupVM: "nil", "true" or "false"
    vm,           \* the VM on the remote side: "none", "up", "powering_down",
                  \* "down", "removed"
    result,       \* what Builder.Run returned ("none" until it returns)
    requests,     \* requests stepCreateVM.Cleanup had sent when a call returned,
                  \* each with the number of Cleanup invocations so far
    ui,           \* what stepCreateVM.Cleanup reported to the UI, likewise
    stub,         \* WaitForState: what conf.Refresh returns, call after call
    wlog,         \* WaitForState: its refresh calls and sleeps, in order
    wout,         \* WaitForState: what it returned (NoOutcome until then)
    cancelSource, \* WaitForState: whether the cancel source has fired
    fpc,          \* a step function run on its own: the statement it is at
    locals,       \* its local variables
    given,        \* its inputs: configuration and what the remote side holds
    sent,         \* the requests it has sent, each with the times it was sent
    fret          \* what it returned (NoReturn until it returns)

wvars == <<MaxRetries, connection, nBuilt, closed, pc, conn, attempt, err,
           ret, trace, nCalls, op, svc, lastCall>>

\* variables of the classification of one error value
clvars == <<cerr, cres>>

\* variables of WaitForState run on its own
wtvars == <<stub, wlog, wout, cancelSource>>

\* variables of a step function run on its own
fvars == <<fpc, locals, given, sent, fret>>

kvars == <<clvars, wtvars, fvars>>

\* variables of the steps' cleanup and of the build's result
cvars == <<runs, cleanups, cpc, polls, vmId, templateId, cleanupVM, vm,
           result, requests, ui>>

pvars == <<phase, step, site, ctxConn, failure, kvars, cvars>>

vars == <<wvars, pvars>>

\* --------------------------------------------------- error classification
\* An error message is a sequence of characters. strings.ToLower and
\* strings.Contains are computed character by character.
UpperCase ==
    <<"A", "B", "C", "D", "E", "F", "G", "H", "I", "J", "K", "L", "M">> \o
    <<"N", "O", "P", "Q", "R", "S", "T", "U", "V", "W", "X", "Y", "Z">>

LowerCase ==
    <<"a", "b", "c", "d", "e", "f", "g", "h", "i", "j", "k", "l", "m">> \o
    <<"n", "o", "p", "q", "r", "s", "t", "u", "v", "w", "x", "y", "z">>

Letters == DOMAIN UpperCase

ToLowerChar(c) ==
    IF \E i \in Letters : UpperCase[i] = c
    THEN LowerCase[CHOOSE i \in Letters : UpperCase[i] = c]
    ELSE c

\* strings.ToLower
ToLower(s) == [i \in 1 .. Len(s) |-> ToLowerChar(s[i])]

\* strings.Contains
Contains(s, substr) ==
    \E i \in 0 .. (Len(s) - Len(substr)) :
        \A j \in 1 .. Len(substr) : s[i + j] = substr[j]

\* the substrings isRetryableError looks for in the lower-cased message
networkErrors ==
    <<<<"c", "o", "n", "n", "e", "c", "t", "i", "o", "n", " ", "r", "e", "f", "u", "s", "e", "d">>,
      <<"c", "o", "n", "n", "e", "c", "t", "i", "o", "n", " ", "r", "e", "s", "e", "t">>,
      <<"n", "e", "t", "w", "o", "r", "k", " ", "i", "s", " ", "u", "n", "r", "e", "a", "c", "h", "a", "b", "l", "e">>,
      <<"n", "o", " ", "r", "o", "u", "t", "e", " ", "t", "o", " ", "h", "o", "s", "t">>,
      <<"t", "i", "m", "e", "o", "u", "t">>,
      <<"d", "e", "a", "d", "l", "i", "n", "e", " ", "e", "x", "c", "e", "e", "d", "e", "d">>,
      <<"c", "o", "n", "t", "e", "x", "t", " ", "d", "e", "a", "d", "l", "i", "n", "e", " ", "e", "x", "c", "e", "e", "d", "e", "d">>,
      <<"c", "o", "n", "n", "e", "c", "t", "i", "o", "n", " ", "l", "o", "s", "t">>,
      <<"b", "r", "o", "k", "e", "n", " ", "p", "i", "p", "e">>,
      <<"c", "o", "n", "n", "e", "c", "t", "i", "o", "n", " ", "r", "e", "s", "e", "t", " ", "b", "y", " ", "p", "e", "e", "r">>>>

\* XML parsing errors that indicate an HTML response
xmlErrors ==
    <<<<"t", "a", "g", " ", "n", "o", "t", " ", "m", "a", "t", "c", "h", "e", "d">>,
      <<"e", "x", "p", "e", "c", "t", " ", "<", "f", "a", "u", "l", "t", ">", " ", "b", "u", "t", " ", "g", "o", "t", " ", "<", "h", "t", "m", "l", ">">>,
      <<"e", "x", "p", "e", "c", "t", " ", "<", "f", "a", "u", "l", "t", ">", " ", "b", "u", "t", " ", "g", "o", "t">>,
      <<"u", "n", "e", "x", "p", "e", "c", "t", "e", "d", " ", "t", "o", "k", "e", "n">>,
      <<"x", "m", "l", " ", "p", "a", "r", "s", "i", "n", "g", " ", "e", "r", "r", "o", "r">>,
      <<"i", "n", "v", "a", "l", "i", "d", " ", "x", "m", "l">>,
      <<"p", "a", "r", "s", "e", " ", "e", "r", "r", "o", "r">>,
      <<"m", "a", "l", "f", "o", "r", "m", "e", "d", " ", "x", "m", "l">>,
      <<"u", "n", "e", "x", "p", "e", "c", "t", "e", "d", " ", "e", "l", "e", "m", "e", "n", "t">>,
      <<"u", "n", "e", "x", "p", "e", "c", "t", "e", "d", " ", "e", "n", "d", " ", "e", "l", "e", "m", "e", "n", "t">>>>

\* authentication and session errors
authErrors ==
    <<<<"u", "n", "a", "u", "t", "h", "o", "r", "i", "z", "e", "d">>,
      <<"f", "o", "r", "b", "i", "d", "d", "e", "n">>,
      <<"a", "u", "t", "h", "e", "n", "t", "i", "c", "a", "t", "i", "o", "n", " ", "f", "a", "i", "l", "e", "d">>,
      <<"s", "e", "s", "s", "i", "o", "n", " ", "e", "x", "p", "i", "r", "e", "d">>,
      <<"l", "o", "g", "i", "n", " ", "r", "e", "q", "u", "i", "r", "e", "d">>,
      <<"t", "o", "k", "e", "n", " ", "e", "x", "p", "i", "r", "e", "d">>,
      <<"i", "n", "v", "a", "l", "i", "d", " ", "t", "o", "k", "e", "n">>,
      <<"a", "c", "c", "e", "s", "s", " ", "d", "e", "n", "i", "e", "d">>>>

\* markers looked for in the message as it is: "HTTP 5", "temporary",
\* "temporarily", "HTTP 429"
HTTP5xx == <<"H", "T", "T", "P", " ", "5">>

Temporary == <<"t", "e", "m", "p", "o", "r", "a", "r", "y">>

Temporarily == <<"t", "e", "m", "p", "o", "r", "a", "r", "i", "l", "y">>

HTTP429 == <<"H", "T", "T", "P", " ", "4", "2", "9">>

\* an error value: whether it is an *ovirtsdk4.AuthError, and its Error() text
AuthError(m) == [auth |-> TRUE, msg |-> m]

PlainError(m) == [auth |-> FALSE, msg |-> m]

\* the range loops of isRetryableError
ContainsAny(s, substrs) ==
    LET lower == ToLower(s)
    IN  \E k \in 1 .. Len(substrs) : Contains(lower, substrs[k])

\* a classifier that takes every HTTP status for a server error
isRetryableErrorAnyStatus(error) ==
    IF error.auth
    THEN TRUE
    ELSE LET errStr == error.msg
         IN  IF ContainsAny(errStr, networkErrors) THEN TRUE
             ELSE IF ContainsAny(errStr, xmlErrors) THEN TRUE
             ELSE IF ContainsAny(errStr, authErrors) THEN TRUE
             ELSE IF Contains(errStr, SubSeq(HTTP5xx, 1, Len(HTTP5xx) - 1))
                  THEN TRUE
             ELSE IF Contains(errStr, Temporary) \/ Contains(errStr, Temporarily)
                  THEN TRUE
             ELSE FALSE

\* classification of an error value as transient
isRetryableError(error) ==
    IF error.auth
    THEN TRUE
    ELSE LET errStr == error.msg
         IN  IF ContainsAny(errStr, networkErrors) THEN TRUE
             ELSE IF ContainsAny(errStr, xmlErrors) THEN TRUE
             ELSE IF ContainsAny(errStr, authErrors) THEN TRUE
             ELSE IF Contains(errStr, HTTP5xx) THEN TRUE
             ELSE IF Contains(errStr, Temporary) \/ Contains(errStr, Temporarily)
                  THEN TRUE
             ELSE IF Contains(errStr, HTTP429) THEN TRUE
             ELSE FALSE

\* the error values behind the names used for the results of remote calls
\* and probes: a network timeout, and a fault reported by the engine
ErrorValue(e) ==
    CASE e = "timeout" -> PlainError(<<"d", "i", "a", "l", " ", "t", "c", "p", ":", " ", "i", "/", "o", " ", "t", "i", "m", "e", "o", "u", "t">>)
      [] e = "fault" -> PlainError(<<"F", "a", "u", "l", "t", " ", "r", "e", "a", "s", "o", "n", " ", "i", "s", " ", "O", "p", "e", "r", "a", "t", "i", "o", "n", " ", "F", "a", "i", "l", "e", "d">>)

\* the named errors for which cw.isRetryableError(err) is true
RetryableErrors == {e \in Errors : isRetryableError(ErrorValue(e))}

\* no error is being classified
NoError == PlainError(<<>>)

\* ------------------------------------------- error values to be classified
ToUpperChar(c) ==
    IF \E i \in Letters : LowerCase[i] = c
    THEN UpperCase[CHOOSE i \in Letters : LowerCase[i] = c]
    ELSE c

ToUpper(s) == [i \in 1 .. Len(s) |-> ToUpperChar(s[i])]

Capitalized(s) ==
    [i \in 1 .. Len(s) |-> IF i = 1 THEN ToUpperChar(s[i]) ELSE ToLowerChar(s[i])]

Range(q) == {q[k] : k \in 1 .. Len(q)}

\* every substring the classification names
ListedSubstrings ==
    Range(networkErrors) \cup Range(xmlErrors) \cup Range(authErrors)
        \cup {HTTP5xx, Temporary, Temporarily, HTTP429}

\* texts that name none of them
OtherTexts ==
    {<<"H", "T", "T", "P", " ", "4", "0", "4", " ", "N", "o", "t", " ", "F", "o", "u", "n", "d">>,
     <<"F", "a", "u", "l", "t", " ", "r", "e", "a", "s", "o", "n", " ", "i", "s", " ", "O", "p", "e", "r", "a", "t", "i", "o", "n", " ", "F", "a", "i", "l", "e", "d">>,
     <<"t", "i", "m", "e", " ", "o", "u", "t">>,
     <<"E", "n", "t", "i", "t", "y", " ", "n", "o", "t", " ", "f", "o", "u", "n", "d">>,
     <<>>}

LetterCases(s) == {s, ToLower(s), ToUpper(s), Capitalized(s)}

Embeddings(s) ==
    LET prefix == <<"E", "r", "r", "o", "r", " ", "g", "e", "t", "t", "i", "n", "g", " ", "V", "M", " ", "s", "t", "a", "t", "u", "s", ":", " ">>
        suffix == <<" ", "(", "c", "o", "d", "e", " ", "7", ")">>
    IN  {s, prefix \o s, s \o suffix, prefix \o s \o suffix}

Messages ==
    UNION {Embeddings(c) :
              c \in UNION {LetterCases(t) : t \in ListedSubstrings \cup OtherTexts}}

ErrorValues == {AuthError(m) : m \in Messages} \cup {PlainError(m) : m \in Messages}

\* ------------------------------------------------------------ the wrapper
Event(e, h, out) == [ev |-> e, h |-> h, out |-> out]


\* reconnect() closes the old handle first (cw.connection is never nil here)
reconnectCloseOld == <<Event("close", connection, "nil")>>

\* reconnect(), Build() fails: the error is returned
reconnectBuildFailed ==
    [connection |-> connection,
     nBuilt     |-> nBuilt,
     closed     |-> closed \cup {connection},
     events     |-> reconnectCloseOld \o <<Event("build", 0, "error")>>,
     conn       |-> 0,
     err        |-> "Reconnection failed"]

\* a new handle's Test() failing without the handle being closed
reconnectTestFailedLeaks ==
    [connection |-> connection,
     nBuilt     |-> nBuilt + 1,
     closed     |-> closed \cup {connection},
     events     |-> reconnectCloseOld
                      \o <<Event("build", nBuilt + 1, "nil"),
                           Event("test", nBuilt + 1, "error")>>,
     conn       |-> 0,
     err        |-> "Reconnection test failed"]

\* reconnect(), Test() of the new handle fails: the new handle is closed and
\* the error returned; cw.connection is left as it was
reconnectTestFailed ==
    [connection |-> connection,
     nBuilt     |-> nBuilt + 1,
     closed     |-> closed \cup {connection, nBuilt + 1},
     events     |-> reconnectCloseOld
                      \o <<Event("build", nBuilt + 1, "nil"),
                           Event("test", nBuilt + 1, "error"),
                           Event("close", nBuilt + 1, "nil")>>,
     conn       |-> 0,
     err        |-> "Reconnection test failed"]

\* a successful reconnect that forgets to store the new handle
reconnectOkNotInstalled ==
    [connection |-> connection,
     nBuilt     |-> nBuilt + 1,
     closed     |-> closed \cup {connection},
     events     |-> reconnectCloseOld
                      \o <<Event("build", nBuilt + 1, "nil"),
                           Event("test", nBuilt + 1, "nil")>>,
     conn       |-> nBuilt + 1,
     err        |-> "nil"]

\* reconnect(), Build() and Test() succeed: the new handle is installed
reconnectOk ==
    [connection |-> nBuilt + 1,
     nBuilt     |-> nBuilt + 1,
     closed     |-> closed \cup {connection},
     events     |-> reconnectCloseOld
                      \o <<Event("build", nBuilt + 1, "nil"),
                           Event("test", nBuilt + 1, "nil")>>,
     conn       |-> nBuilt + 1,
     err        |-> "nil"]

\* one run of reconnect() with outcome r: the fields are the wrapper state
\* after the run, the calls it made, and what it returned (conn, err)
reconnect(r) ==
    CASE r = "build_failed" -> reconnectBuildFailed
      [] r = "test_failed"  -> reconnectTestFailed
      [] OTHER              -> reconnectOk

\* a reconnect that builds a handle needs one the remote side still grants
CanReconnect(r) == r = "build_failed" \/ nBuilt < MaxHandles

\* a GetConnection that reconnects whatever the probe said
GetConnectionAlwaysReconnects(t, r) ==
    [reconnect(r) EXCEPT !.events = <<Event("test", connection, t)>> \o @]

\* a GetConnection that hands back the handle it held before the reconnect
GetConnectionReturnsOld(t, r) ==
    LET probe == <<Event("test", connection, t)>>
    IN  IF t = "nil"
        THEN [connection |-> connection, nBuilt |-> nBuilt, closed |-> closed,
              events |-> probe, conn |-> connection, err |-> "nil"]
        ELSE IF t \in RetryableErrors
        THEN [reconnect(r) EXCEPT !.events = probe \o @,
                                  !.conn = IF @ = 0 THEN 0 ELSE connection]
        ELSE [connection |-> connection, nBuilt |-> nBuilt, closed |-> closed,
              events |-> probe, conn |-> 0, err |-> t]

\* GetConnection with probe result t and, when it reconnects, outcome r
GetConnection(t, r) ==
    LET probe == <<Event("test", connection, t)>>
    IN  IF t = "nil"
        THEN [connection |-> connection, nBuilt |-> nBuilt, closed |-> closed,
              events |-> probe, conn |-> connection, err |-> "nil"]
        ELSE IF t \in RetryableErrors
        THEN [reconnect(r) EXCEPT !.events = probe \o @]
        ELSE [connection |-> connection, nBuilt |-> nBuilt, closed |-> closed,
              events |-> probe, conn |-> 0, err |-> t]

\* An operation closure is [site, via]: via says which handle its request goes
\* out on. "passed": the handle ExecuteWithReconnect passes to the closure;
\* "capture": the closure sends nothing, it derives a service object from the
\* passed handle, stores it in a local of the step and returns nil;
\* "captured": the request is sent through that stored service object;
\* "ctx": no closure, the step sends on the state bag's "conn" handle.
Closure(s, v) == [site |-> s, via |-> v]

\* no ExecuteWithReconnect call: GetConnection called by itself
NoClosure == Closure("GetConnection", "none")

NoCall == [site |-> "none", h |-> 0, passed |-> 0, onClosed |-> FALSE]

\* the handle an operation closure sends its request on, given the handle c
\* that ExecuteWithReconnect passes to it
HandleOf(o, c) == IF o.via = "captured" THEN svc ELSE c

\* the results a run of the closure can have: one that sends nothing
\* returns nil, and a request of Cleanup about a removed VM returns an error
ClosureResults(o) ==
    IF o.via = "capture" THEN {"nil"}
    ELSE IF o.via = "cleanup" /\ vm = "removed" THEN Errors
    ELSE Results

\* what a run of the closure with passed handle c leaves in the step's local
\* service object and in the record of the last request sent
SvcAfter(o, c) == IF o.via = "capture" THEN c ELSE svc

CallAfter(o, c) ==
    IF o.via = "capture"
    THEN lastCall
    ELSE [site |-> o.site, h |-> HandleOf(o, c), passed |-> c,
          onClosed |-> HandleOf(o, c) \in closed]

\* the condition of the retry loop, for the value a of attempt
LoopCondition(a) == a <= MaxRetries

\* the test "this was the last attempt" of the retry loop
LastAttempt(a) == a = MaxRetries

\* where ExecuteWithReconnect goes next: a return statement ...
Return(line, e, a) ==
    [pc |-> "returned", ret |-> line, err |-> e, attempt |-> a, sleep |-> FALSE]

\* ... or on inside the function
Goto(label, e, a) ==
    [pc |-> label, ret |-> 0, err |-> e, attempt |-> a, sleep |-> FALSE]

\* time.Sleep and continue: attempt++ and the loop condition again; when it
\* fails the function falls out of the loop to its last return
SleepAndContinue(e, a) ==
    IF LoopCondition(a + 1)
    THEN [Goto("reconnect", e, a + 1) EXCEPT !.sleep = TRUE]
    ELSE [Return(150, "Operation failed", a + 1) EXCEPT !.sleep = TRUE]

\* a first run whose exhausted retry budget falls through to "return nil"
AfterOperationFallsThrough(e) ==
    IF e = "nil"
    THEN Return(156, "nil", attempt)
    ELSE IF e \in RetryableErrors
    THEN IF LoopCondition(1)
         THEN Goto("reconnect", e, 1)
         ELSE Return(156, "nil", 1)
    ELSE Return(152, e, attempt)

\* after the first run of the operation returned e
AfterOperation(e) ==
    IF e = "nil"
    THEN Return(156, "nil", attempt)
    ELSE IF e \in RetryableErrors
    THEN IF LoopCondition(1)
         THEN Goto("reconnect", e, 1)
         ELSE Return(150, "Operation failed", 1)
    ELSE Return(152, e, attempt)

\* a failed reconnect that does not use up an attempt
AfterReconnectFreeRetry(e) ==
    IF e # "nil"
    THEN [Goto("reconnect", e, attempt) EXCEPT !.sleep = TRUE]
    ELSE Goto("retry", e, attempt)

\* after the reconnect of a loop pass returned error e ("nil": it succeeded)
AfterReconnect(e) ==
    IF e # "nil"
    THEN IF LastAttempt(attempt)
         THEN Return(119, e, attempt)
         ELSE SleepAndContinue(e, attempt)
    ELSE Goto("retry", e, attempt)

\* a re-run whose retryable failure does not use up an attempt
AfterRetryOperationOwnBudget(e) ==
    IF e # "nil"
    THEN IF e \in RetryableErrors
         THEN [Goto("reconnect", e, attempt) EXCEPT !.sleep = TRUE]
         ELSE Return(140, e, attempt)
    ELSE Return(145, "nil", attempt)

\* a re-run that retries whatever the error is
AfterRetryOperationRetriesAll(e) ==
    IF e # "nil"
    THEN IF LastAttempt(attempt)
         THEN Return(133, e, attempt)
         ELSE SleepAndContinue(e, attempt)
    ELSE Return(145, "nil", attempt)

\* after the re-run of the operation in a loop pass returned e
AfterRetryOperation(e) ==
    IF e # "nil"
    THEN IF e \in RetryableErrors
         THEN IF LastAttempt(attempt)
              THEN Return(133, e, attempt)
              ELSE SleepAndContinue(e, attempt)
         ELSE Return(140, e, attempt)
    ELSE Return(145, "nil", attempt)

Sleep(d) == IF d.sleep THEN <<Event("sleep", 0, "nil")>> ELSE <<>>

\* ExecuteWithReconnect, entry: GetConnection, return its error if any
ExecuteBegin(o, t, r) ==
    /\ pc \in {"idle", "returned"}
    /\ t \in RetryableErrors => CanReconnect(r)
    /\ LET g == GetConnection(t, r)
       IN  /\ connection' = g.connection
           /\ nBuilt' = g.nBuilt
           /\ closed' = g.closed
           /\ trace' = g.events
           /\ conn' = g.conn
           /\ err' = g.err
           /\ IF g.err # "nil"
              THEN pc' = "returned" /\ ret' = 101
              ELSE pc' = "operation" /\ ret' = 0
    /\ op' = o
    /\ attempt' = 0
    /\ nCalls' = nCalls + 1
    /\ UNCHANGED <<MaxRetries, svc, lastCall>>

\* first run of the operation, with result e
ExecuteOperation(e) ==
    /\ pc = "operation"
    /\ e \in ClosureResults(op)
    /\ LET d == AfterOperation(e)
       IN  /\ pc' = d.pc /\ ret' = d.ret /\ err' = d.err /\ attempt' = d.attempt
           /\ trace' = Append(trace, Event("op", conn, e)) \o Sleep(d)
    /\ svc' = SvcAfter(op, conn)
    /\ lastCall' = CallAfter(op, conn)
    /\ UNCHANGED <<MaxRetries, connection, nBuilt, closed, conn, nCalls, op>>
    /\ UNCHANGED pvars

\* one pass of the retry loop up to the outcome r of its reconnect
ExecuteRetryReconnect(r) ==
    /\ pc = "reconnect"
    /\ CanReconnect(r)
    /\ LET rc == reconnect(r)
           d  == AfterReconnect(rc.err)
       IN  /\ connection' = rc.connection
           /\ nBuilt' = rc.nBuilt
           /\ closed' = rc.closed
           /\ conn' = rc.conn
           /\ pc' = d.pc /\ ret' = d.ret /\ err' = d.err /\ attempt' = d.attempt
           /\ trace' = trace \o rc.events \o Sleep(d)
    /\ UNCHANGED <<MaxRetries, nCalls, op, svc, lastCall>>
    /\ UNCHANGED pvars

\* the re-run of the operation after a successful reconnect, with result e
ExecuteRetryOperation(e) ==
    /\ pc = "retry"
    /\ e \in ClosureResults(op)
    /\ LET d == AfterRetryOperation(e)
       IN  /\ pc' = d.pc /\ ret' = d.ret /\ err' = d.err /\ attempt' = d.attempt
           /\ trace' = Append(trace, Event("op", conn, e)) \o Sleep(d)
    /\ svc' = SvcAfter(op, conn)
    /\ lastCall' = CallAfter(op, conn)
    /\ UNCHANGED <<MaxRetries, connection, nBuilt, closed, conn, nCalls, op>>
    /\ UNCHANGED pvars

\* ConnectionWrapper.Close
Close ==
    /\ pc \in {"idle", "returned"}
    /\ pc' = "closed"
    /\ closed' = closed \cup {connection}
    /\ UNCHANGED pvars
    /\ UNCHANGED <<MaxRetries, connection, nBuilt, conn, attempt, err, ret,
                   trace, nCalls, op, svc, lastCall>>

\* ------------------------------------------------- Spec: wrapper and client
\* the state NewConnectionWrapper leaves: one handle, built and open
WrapperInit ==
    /\ MaxRetries \in MaxRetriesValues
    /\ connection = 1
    /\ nBuilt = 1
    /\ closed = {}
    /\ pc = "idle"
    /\ conn = 0
    /\ attempt = 0
    /\ err = "nil"
    /\ ret = 0
    /\ trace = <<>>
    /\ nCalls = 0
    /\ op = NoClosure
    /\ svc = 0
    /\ lastCall = NoCall

NoFailure == [step |-> "none", site |-> "none", err |-> "nil", cause |-> "nil",
              attempts |-> 0, ret |-> 0]

\* no step has run and no build is in progress
NoOutcome == [res |-> "none", snap |-> 0, err |-> "nil", status |-> ""]

NoReturn == [val |-> "none", err |-> "nil"]

\* no WaitForState and no step function on its own
NoWait ==
    /\ stub = <<>> /\ wlog = <<>> /\ wout = NoOutcome /\ cancelSource = FALSE
    /\ fpc = "none" /\ locals = <<>> /\ given = <<>> /\ sent = <<>>
    /\ fret = NoReturn

NoPipeline ==
    /\ runs = <<>> /\ cleanups = <<>> /\ cpc = "none" /\ polls = 0
    /\ vmId = "absent" /\ templateId = FALSE /\ cleanupVM = "nil"
    /\ vm = "none" /\ result = "none" /\ requests = <<>> /\ ui = {}

\* no pipeline: the wrapper is driven by a client
Init ==
    /\ WrapperInit
    /\ phase = "client" /\ step = 0 /\ site = 0 /\ ctxConn = 0
    /\ failure = NoFailure
    /\ cerr = NoError /\ cres = "none" /\ NoWait
    /\ NoPipeline

\* a client calling ExecuteWithReconnect with an operation that sends one
\* request on the handle it is given
ClientCall ==
    /\ nCalls < MaxCalls
    /\ \E t \in Results, r \in ReconnectOutcomes :
          ExecuteBegin(Closure("client", "passed"), t, r)
    /\ UNCHANGED pvars

\* a client calling GetConnection itself, as Builder.Run does
ClientGetConnection ==
    /\ pc \in {"idle", "returned"}
    /\ nCalls < MaxCalls
    /\ \E t \in Results, r \in ReconnectOutcomes :
          /\ t \in RetryableErrors => CanReconnect(r)
          /\ LET g == GetConnection(t, r)
             IN  /\ connection' = g.connection
                 /\ nBuilt' = g.nBuilt
                 /\ closed' = g.closed
                 /\ trace' = g.events
                 /\ conn' = g.conn
                 /\ err' = g.err
                 /\ ret' = IF t = "nil" THEN 53
                           ELSE IF t \in RetryableErrors THEN 48 ELSE 51
    /\ pc' = "returned"
    /\ op' = NoClosure
    /\ attempt' = 0
    /\ nCalls' = nCalls + 1
    /\ UNCHANGED <<MaxRetries, svc, lastCall>>
    /\ UNCHANGED pvars

Next ==
    \/ ClientCall
    \/ ClientGetConnection
    \/ \E e \in Results : ExecuteOperation(e)
    \/ \E r \in ReconnectOutcomes : ExecuteRetryReconnect(r)
    \/ \E e \in Results : ExecuteRetryOperation(e)
    \/ Close

Spec == Init /\ [][Next]_vars

\* ------------------------------------------------ reading the call's trace
Idx(e) == {i \in 1 .. Len(trace) : trace[i].ev = e}

\* runs of the operation, reconnect() calls (each calls Build once), sleeps
Ops == Idx("op")

Reconnects == Idx("build")

Sleeps == Idx("sleep")

FirstOp == CHOOSE i \in Ops : \A j \in Ops : i <= j

LastOp == CHOOSE i \in Ops : \A j \in Ops : j <= i

\* reconnect() calls of the retry loop: those after the first run
LoopReconnects == {i \in Reconnects : \E j \in Ops : j < i}

\* reconnect() calls that failed: Build failed, or the new handle's Test did
FailedReconnect(i) ==
    \/ trace[i].out = "error"
    \/ i < Len(trace) /\ trace[i + 1].ev = "test" /\ trace[i + 1].out = "error"

Max0(n) == IF n > 0 THEN n ELSE 0

Returned == ret # 0

\* the current call is an ExecuteWithReconnect call
InExecute == op.via # "none"

\* handles built and not closed
OpenHandles == (1 .. nBuilt) \ closed

\* a step list with the export appended before the template creation
StepsExportFirst ==
    <<"stepKeyPair", "stepCreateVM", "stepSetupInitialRun", "StepConnect",
      "StepProvision", "StepCleanupTempKeys", "stepStopVM",
      "stepCleanupInterfaces", "stepExportTemplateToOVA",
      "stepCreateTemplateFromVM">>

\* ----------------------------------------------- SpecBuild: the pipeline
\* the steps Builder.Run hands to the runner, in order
Steps == <<"stepKeyPair", "stepCreateVM", "stepSetupInitialRun", "StepConnect",
           "StepProvision", "StepCleanupTempKeys", "stepStopVM",
           "stepCleanupInterfaces", "stepCreateTemplateFromVM",
           "stepExportTemplateToOVA">>

\* The remote calls of each step's Run, in program order, with the way each
\* gets its handle. stepCreateVM (template source, network configured):
\* every closure uses the handle it is passed.
stepCreateVMCalls ==
    <<Closure("clusters.List", "passed"),
      Closure("templates.List", "passed"),
      Closure("template.Get", "passed"),
      Closure("vms.Add", "passed"),
      Closure("networks.List", "passed"),
      Closure("vnicprofiles.List", "passed"),
      Closure("vm.nics.List", "passed"),
      Closure("vm.nics.Add", "passed"),
      Closure("vm.Get", "passed")>>

\* stepSetupInitialRun: vmService is derived in a first closure and used by
\* the closures of the two later calls
stepSetupInitialRunCalls ==
    <<Closure("vmService", "capture"),
      Closure("vm.Update", "captured"),
      Closure("vm.Start", "captured")>>

\* stepStopVM: status fetch and Stop, each on the passed handle
stepStopVMCalls ==
    <<Closure("vm.Get", "passed"),
      Closure("vm.Stop", "passed")>>

\* stepCleanupInterfaces: vmService is derived once and used for the list
\* and for the removal
stepCleanupInterfacesCalls ==
    <<Closure("vmService", "capture"),
      Closure("vm.nics.List", "captured"),
      Closure("vm.nic.Remove", "captured")>>

\* stepCreateTemplateFromVM: both requests go out on the state bag's "conn"
stepCreateTemplateFromVMCalls ==
    <<Closure("vm.Get", "ctx"),
      Closure("templates.Add", "ctx")>>

\* stepExportTemplateToOVA: templatesService and hostsService are derived in
\* closures of their own and used in the next call
stepExportTemplateToOVACalls ==
    <<Closure("templatesService", "capture"),
      Closure("template.Get", "captured"),
      Closure("hostsService", "capture"),
      Closure("hosts.List", "captured")>>

Program(name) ==
    CASE name = "stepCreateVM" -> stepCreateVMCalls
      [] name = "stepSetupInitialRun" -> stepSetupInitialRunCalls
      [] name = "stepStopVM" -> stepStopVMCalls
      [] name = "stepCleanupInterfaces" -> stepCleanupInterfacesCalls
      [] name = "stepCreateTemplateFromVM" -> stepCreateTemplateFromVMCalls
      [] name = "stepExportTemplateToOVA" -> stepExportTemplateToOVACalls
      [] OTHER -> <<>>

Running == phase = "run" /\ step \in 1 .. Len(Steps)

CurrentCalls == Program(Steps[step])

\* the error the remote side raised that made the returned call fail
Cause == IF ret = 101 THEN trace[1].out ELSE trace[LastOp].out

\* state.Put("error", err) of a step, with what led to it
Failure(e, cause, n, line) ==
    [step |-> Steps[step], site |-> CurrentCalls[site].site, err |-> e,
     cause |-> cause, attempts |-> n, ret |-> line]

\* steps of the pipeline whose Run is not in this package's sources: each
\* either continues or records an error and halts
ExternalSteps == {"stepKeyPair", "StepConnect", "StepProvision",
                  "StepCleanupTempKeys"}

\* the ids a created VM can carry in the response stored as "vm_id"
VMIds == {"", "vm-1"}

\* the runner starts the Run of step i, if there is one
RunBegins(i) == IF i <= Len(Steps) THEN Append(runs, Steps[i]) ELSE runs

\* a step that goes on after recording an error
StepActionContinues(e) == "ActionContinue"

\* what a step's Run returns after a call that ended with e
StepAction(e) == IF e # "nil" THEN "ActionHalt" ELSE "ActionContinue"

\* the runner after a step's Run returned action a: Halt ends the loop,
\* Continue starts the next step
RunnerNext(a) ==
    IF a = "ActionHalt"
    THEN /\ phase' = "halted"
         /\ UNCHANGED <<step, site, runs>>
    ELSE /\ step' = step + 1
         /\ site' = 1
         /\ runs' = RunBegins(step + 1)
         /\ UNCHANGED phase

\* the remote VM after request s on it succeeded
VMAfter(s, v) ==
    CASE s = "vms.Add" -> "down"
      [] s = "vm.Start" -> "up"
      [] s = "vm.Stop" -> "powering_down"
      [] s = "vm.Remove" -> "removed"
      [] OTHER -> v

\* Builder.Run up to the runner: the wrapper exists; GetConnection, and its
\* handle is stored as "conn"
BuilderStart ==
    /\ phase = "init"
    /\ \E t \in Results, r \in ReconnectOutcomes :
          /\ t \in RetryableErrors => CanReconnect(r)
          /\ LET g == GetConnection(t, r)
             IN  /\ connection' = g.connection
                 /\ nBuilt' = g.nBuilt
                 /\ trace' = g.events
                 /\ conn' = g.conn
                 /\ err' = g.err
                 /\ IF g.err # "nil"
                    THEN /\ phase' = "done" /\ pc' = "closed"
                         /\ closed' = g.closed \cup {g.connection}
                         /\ result' = "error"
                         /\ UNCHANGED <<step, site, ctxConn, runs>>
                    ELSE /\ phase' = "run" /\ pc' = "idle"
                         /\ closed' = g.closed
                         /\ ctxConn' = g.conn
                         /\ step' = 1 /\ site' = 1
                         /\ runs' = RunBegins(1)
                         /\ UNCHANGED result
    /\ UNCHANGED <<MaxRetries, attempt, ret, nCalls, op, svc, lastCall, failure>>
    /\ UNCHANGED <<kvars, cleanups, cpc, polls, vmId, templateId, cleanupVM,
                   vm, requests, ui>>

\* a step calls ExecuteWithReconnect with its next closure
StepExecute ==
    /\ Running /\ pc = "idle"
    /\ site <= Len(CurrentCalls)
    /\ CurrentCalls[site].via # "ctx"
    /\ \E t \in Results, r \in ReconnectOutcomes :
          ExecuteBegin(CurrentCalls[site], t, r)
    /\ UNCHANGED pvars

\* ExecuteWithReconnect returned to the step: an error is put in the failure
\* slot and the step halts
StepReturn ==
    /\ Running /\ pc = "returned"
    /\ pc' = "idle"
    /\ IF err # "nil"
       THEN /\ failure' = Failure(err, Cause, Cardinality(LoopReconnects), ret)
            /\ RunnerNext(StepAction(err))
            /\ UNCHANGED vm
       ELSE /\ site' = site + 1
            /\ vm' = VMAfter(op.site, vm)
            /\ UNCHANGED <<failure, phase, step, runs>>
    /\ UNCHANGED <<MaxRetries, connection, nBuilt, closed, conn, attempt, err,
                   ret, trace, nCalls, op, svc, lastCall, ctxConn>>
    /\ UNCHANGED <<kvars, cleanups, cpc, polls, vmId, templateId, cleanupVM,
                   result, requests, ui>>

\* a step sends its next request on the "conn" handle of the state bag, with
\* result e: an error is put in the failure slot and the step halts
StepSend(e) ==
    /\ Running /\ pc = "idle"
    /\ site <= Len(CurrentCalls)
    /\ CurrentCalls[site].via = "ctx"
    /\ vmId # ""
    /\ lastCall' = [site |-> CurrentCalls[site].site, h |-> ctxConn,
                    passed |-> 0, onClosed |-> ctxConn \in closed]
    /\ IF e # "nil"
       THEN /\ failure' = Failure(e, e, 0, 0)
            /\ RunnerNext(StepAction(e))
       ELSE /\ site' = site + 1
            /\ UNCHANGED <<failure, phase, step, runs>>
    /\ UNCHANGED <<MaxRetries, connection, nBuilt, closed, pc, conn, attempt,
                   err, ret, trace, nCalls, op, svc, ctxConn>>
    /\ UNCHANGED <<kvars, cleanups, cpc, polls, vmId, templateId, cleanupVM,
                   vm, result, requests, ui>>

\* stepCreateTemplateFromVM finds an empty "vm_id": it reports to the UI and
\* halts, and the failure slot stays as it is
StepHaltNoError ==
    /\ Running /\ pc = "idle"
    /\ Steps[step] = "stepCreateTemplateFromVM" /\ site = 1
    /\ vmId = ""
    /\ RunnerNext("ActionHalt")
    /\ UNCHANGED <<wvars, ctxConn, failure, kvars, cleanups, cpc, polls, vmId,
                   templateId, cleanupVM, vm, result, requests, ui>>

\* a step outside this package fails: it records its error and halts
StepHalt ==
    /\ Running /\ pc = "idle"
    /\ Steps[step] \in ExternalSteps
    /\ failure' = [step |-> Steps[step], site |-> "Run", err |-> "fault",
                   cause |-> "fault", attempts |-> 0, ret |-> 0]
    /\ RunnerNext(StepAction("fault"))
    /\ UNCHANGED <<wvars, ctxConn, kvars, cleanups, cpc, polls, vmId,
                   templateId, cleanupVM, vm, result, requests, ui>>

\* the step's Run returns Continue: the runner starts the next step.
\* stepCreateVM has stored the id of the VM, stepStopVM has waited for the VM
\* to be down, stepCreateTemplateFromVM has stored the id of the template
StepContinue ==
    /\ Running /\ pc = "idle"
    /\ site > Len(CurrentCalls)
    /\ RunnerNext("ActionContinue")
    /\ svc' = 0
    /\ vmId' \in (IF Steps[step] = "stepCreateVM" THEN VMIds ELSE {vmId})
    /\ vm' = IF Steps[step] = "stepStopVM" THEN "down" ELSE vm
    /\ templateId' = (templateId \/ Steps[step] = "stepCreateTemplateFromVM")
    /\ UNCHANGED <<MaxRetries, connection, nBuilt, closed, pc, conn, attempt,
                   err, ret, trace, nCalls, op, lastCall, ctxConn, failure>>
    /\ UNCHANGED <<kvars, cleanups, cpc, polls, cleanupVM, result, requests,
                   ui>>

\* ------------------------------------------------------------ WaitForState
\* a wait that looks at the cancel source and sleeps before it compares the
\* status with the target set
WaitForStateStepSleepsFirst(conf, s, e, cancelled) ==
    IF e # "nil" THEN "refresh error"
    ELSE IF s \in conf.Pending \cup conf.Target
         THEN IF cancelled THEN "cancelled" ELSE "sleep"
    ELSE "unexpected state"

\* a wait that takes a failed refresh for a pending status and tries again
WaitForStateStepRetries(conf, s, e, cancelled) ==
    IF e # "nil" \/ s \in conf.Pending
    THEN IF cancelled THEN "cancelled" ELSE "sleep"
    ELSE IF s \in conf.Target THEN "success"
    ELSE "unexpected state"

\* One iteration of WaitForState(conf): what follows a refresh that returned
\* status s and error e; cancelled tells whether the cancel source has fired
\* when it is looked at, between two iterations.
WaitForStateStep(conf, s, e, cancelled) ==
    IF e # "nil" THEN "refresh error"
    ELSE IF s \in conf.Target THEN "success"
    ELSE IF s \in conf.Pending
         THEN IF cancelled THEN "cancelled" ELSE "sleep"
    ELSE "unexpected state"

\* ---------------------------------------------------- stepCreateVM.Cleanup
\* the wait of Cleanup for the VM to stop
vmStateChange == [Pending |-> {"up"}, Target |-> {"down"}]

\* the statuses a successful Get can report for the remote VM v: a VM that
\* was told to stop is still up, powering down, or down already
Observed(v) ==
    IF v = "powering_down" THEN {"up", "powering_down", "down"} ELSE {v}

\* the closure of the call Cleanup is at: each sends one request on the
\* handle it is passed
CleanupClosure(c) ==
    CASE c = "get" -> Closure("vm.Get", "cleanup")
      [] c = "stop" -> Closure("vm.Stop", "cleanup")
      [] c = "refresh" -> Closure("vm.Get (refresh)", "cleanup")
      [] c = "remove" -> Closure("vm.Remove", "cleanup")

\* Cleanup goes to call c, or returns (c = "none"), leaving the remote VM in
\* v, having said the messages said and slept n times in its wait; it never
\* puts anything in the state bag
Goes(c, v, said, n) ==
    [cpc |-> c, vm |-> v, said |-> said, polls |-> n, failure |-> failure]

\* a Cleanup that deletes the VM whatever cleanup_vm says
DeleteAlways(v, said) ==
    Goes("remove", v, said \cup {"Deleting virtual machine"}, 0)

\* "Delete VM if cleanup is enabled"
DeleteIfEnabled(v, said) ==
    IF cleanupVM = "true"
    THEN Goes("remove", v, said \cup {"Deleting virtual machine"}, 0)
    ELSE Goes("none", v, said \cup {"Skipping VM cleanup"}, 0)

\* a Cleanup that stops the VM without looking at its status
AfterGetStopsAlways(e, s) ==
    IF e # "nil"
    THEN Goes("none", vm, {"Error getting VM status"}, 0)
    ELSE Goes("stop", vm, {"Stopping VM"}, 0)

\* Cleanup after its status fetch returned error e and, if none, status s
AfterGet(e, s) ==
    IF e # "nil"
    THEN Goes("none", vm, {"Error getting VM status"}, 0)
    ELSE IF s = "down"
         THEN DeleteIfEnabled("down", {"VM is already stopped"})
         ELSE Goes("stop", vm, {"Stopping VM"}, 0)

\* Cleanup after its Stop request returned e
AfterStop(e) ==
    IF e # "nil"
    THEN Goes("none", vm, {"Error stopping VM"}, 0)
    ELSE Goes("refresh", "powering_down", {}, 0)

\* Cleanup after a refresh of its wait returned error e and, if none, status s
AfterRefresh(e, s, cancelled) ==
    LET w == WaitForStateStep(vmStateChange, s, e, cancelled)
    IN  CASE w = "success" -> DeleteIfEnabled("down", {})
          [] w = "sleep" -> Goes("refresh", vm, {}, polls + 1)
          [] OTHER -> Goes("none", vm, {"Error waiting for VM to stop"}, 0)

\* a Cleanup that puts the error of a failed delete in the failure slot
AfterRemoveRecords(e) ==
    IF e # "nil"
    THEN [Goes("none", vm, {"Error deleting VM"}, 0) EXCEPT
             !.failure = [step |-> "stepCreateVM", site |-> "Cleanup",
                          err |-> e, cause |-> e, attempts |-> 0, ret |-> 0]]
    ELSE Goes("none", "removed", {}, 0)

\* Cleanup after its Remove request returned e
AfterRemove(e) ==
    IF e # "nil"
    THEN Goes("none", vm, {"Error deleting VM"}, 0)
    ELSE Goes("none", "removed", {}, 0)

CleanupAfter(c, e, s, cancelled) ==
    CASE c = "get" -> AfterGet(e, s)
      [] c = "stop" -> AfterStop(e)
      [] c = "refresh" -> AfterRefresh(e, s, cancelled)
      [] c = "remove" -> AfterRemove(e)

\* a Cleanup that does not look for "vm_id"
CleanupEntryUnchecked == "get"

\* entry of Cleanup: without a "vm_id" in the state bag it returns at once
CleanupEntry == IF vmId = "absent" THEN "none" ELSE "get"

\* Cleanup calls ExecuteWithReconnect with the closure of the call it is at
CleanupExecute ==
    /\ cpc # "none" /\ pc = "idle"
    /\ \E t \in Results, r \in ReconnectOutcomes :
          ExecuteBegin(CleanupClosure(cpc), t, r)
    /\ UNCHANGED pvars

\* ExecuteWithReconnect returned to Cleanup
CleanupReturn ==
    /\ cpc # "none" /\ pc = "returned"
    /\ pc' = "idle"
    /\ \E s \in Observed(vm), cancelled \in BOOLEAN :
          LET g == CleanupAfter(cpc, err, s, cancelled)
          IN  /\ g.polls <= MaxPolls
              /\ cpc' = g.cpc
              /\ vm' = g.vm
              /\ polls' = g.polls
              /\ ui' = ui \cup {[n |-> Len(cleanups), msg |-> m] : m \in g.said}
              /\ failure' = g.failure
    /\ requests' = IF Ops # {}
                   THEN Append(requests, [n |-> Len(cleanups), req |-> op.site])
                   ELSE requests
    /\ UNCHANGED <<MaxRetries, connection, nBuilt, closed, conn, attempt, err,
                   ret, trace, nCalls, op, svc, lastCall>>
    /\ UNCHANGED <<phase, step, site, ctxConn, kvars, runs, cleanups, vmId,
                   templateId, cleanupVM, result>>

\* ------------------------------------------------- the end of Builder.Run
\* the runner's loop is over: a step halted, or all steps ran
PipelineOver == phase = "halted" \/ (phase = "run" /\ step > Len(Steps))

\* the runner leaves its loop: the deferred Cleanup calls are next
RunnerStops ==
    /\ PipelineOver /\ pc = "idle"
    /\ phase' = "cleanup"
    /\ UNCHANGED <<wvars, step, site, ctxConn, failure, kvars, cvars>>

\* index in runs of the step whose Cleanup is next: the last one started
\* whose Cleanup has not been invoked
NextCleanup == Len(runs) - Len(cleanups)

\* the runner invokes the Cleanup of the next step; all but stepCreateVM's
\* do nothing
StepCleanup ==
    /\ phase = "cleanup" /\ cpc = "none" /\ pc = "idle"
    /\ NextCleanup >= 1
    /\ cleanups' = Append(cleanups, runs[NextCleanup])
    /\ cpc' = IF runs[NextCleanup] = "stepCreateVM" THEN CleanupEntry ELSE "none"
    /\ UNCHANGED <<wvars, phase, step, site, ctxConn, failure, kvars, runs,
                   polls, vmId, templateId, cleanupVM, vm, result, requests,
                   ui>>

\* a Builder.Run that answers with an artifact whenever no error is recorded
BuilderResultArtifact ==
    IF failure # NoFailure THEN "error" ELSE "artifact"

\* what Builder.Run returns: the error of the failure slot, else an artifact
\* with the template id, else nil, nil
BuilderResult ==
    IF failure # NoFailure THEN "error"
    ELSE IF templateId THEN "artifact"
    ELSE "nil"

\* the runner is done: Builder.Run returns, and the deferred Close runs
BuilderFinish ==
    /\ phase = "cleanup" /\ cpc = "none" /\ pc = "idle"
    /\ NextCleanup = 0
    /\ phase' = "done"
    /\ pc' = "closed"
    /\ closed' = closed \cup {connection}
    /\ result' = BuilderResult
    /\ UNCHANGED <<MaxRetries, connection, nBuilt, conn, attempt, err, ret,
                   trace, nCalls, op, svc, lastCall, step, site, ctxConn,
                   failure>>
    /\ UNCHANGED <<kvars, runs, cleanups, cpc, polls, vmId, templateId,
                   cleanupVM, vm, requests, ui>>

\* the configurations of cleanup_vm: not set, true, false
CleanupVMValues == {"nil", "true", "false"}

\* a build with max_retries = 1
BuildInit ==
    /\ WrapperInit
    /\ MaxRetries = 1
    /\ phase = "init" /\ step = 0 /\ site = 0 /\ ctxConn = 0
    /\ failure = NoFailure
    /\ cerr = NoError /\ cres = "none" /\ NoWait
    /\ runs = <<>> /\ cleanups = <<>> /\ cpc = "none" /\ polls = 0
    /\ vmId = "absent" /\ templateId = FALSE
    /\ cleanupVM \in CleanupVMValues
    /\ vm = "none" /\ result = "none" /\ requests = <<>> /\ ui = {}

BuildNext ==
    \/ BuilderStart
    \/ StepExecute
    \/ \E e \in Results : ExecuteOperation(e)
    \/ \E r \in ReconnectOutcomes : ExecuteRetryReconnect(r)
    \/ \E e \in Results : ExecuteRetryOperation(e)
    \/ StepReturn
    \/ \E e \in Results : StepSend(e)
    \/ StepHaltNoError
    \/ StepHalt
    \/ StepContinue
    \/ RunnerStops
    \/ StepCleanup
    \/ CleanupExecute
    \/ CleanupReturn
    \/ BuilderFinish

SpecBuild == BuildInit /\ [][BuildNext]_vars

\* ------------------------------------- stepCreateVM.Cleanup, called directly
\* stepCreateVM.Run has returned, with or without having stored "vm_id";
\* the VM, if stored, is up, told to stop, or down; max_retries = 1
CleanupInit ==
    /\ WrapperInit
    /\ MaxRetries = 1
    /\ phase = "driver" /\ step = 0 /\ site = 0 /\ ctxConn = 1
    /\ failure = NoFailure
    /\ cerr = NoError /\ cres = "none" /\ NoWait
    /\ runs = <<"stepKeyPair", "stepCreateVM">> /\ cleanups = <<>>
    /\ cpc = "none" /\ polls = 0
    /\ vmId \in {"absent", "vm-1"}
    /\ templateId = FALSE
    /\ cleanupVM \in CleanupVMValues
    /\ vm \in (IF vmId = "absent" THEN {"none"}
               ELSE {"up", "powering_down", "down"})
    /\ result = "none" /\ requests = <<>> /\ ui = {}

\* Cleanup of stepCreateVM is invoked, up to MaxCleanups times in a row; the
\* record keeps the requests of the invocation that begins and the reports
\* of the one before it
CleanupInvoke ==
    /\ phase = "driver" /\ cpc = "none" /\ pc = "idle"
    /\ Len(cleanups) < MaxCleanups
    /\ cleanups' = Append(cleanups, "stepCreateVM")
    /\ cpc' = CleanupEntry
    /\ requests' = <<>>
    /\ ui' = {x \in ui : x.n = Len(cleanups)}
    /\ UNCHANGED <<wvars, phase, step, site, ctxConn, failure, kvars, runs,
                   polls, vmId, templateId, cleanupVM, vm, result>>

CleanupNext ==
    \/ CleanupInvoke
    \/ CleanupExecute
    \/ \E e \in Results : ExecuteOperation(e)
    \/ \E r \in ReconnectOutcomes : ExecuteRetryReconnect(r)
    \/ \E e \in Results : ExecuteRetryOperation(e)
    \/ CleanupReturn

SpecCleanup == CleanupInit /\ [][CleanupNext]_vars

\* ----------------------------------------------- reading Cleanup's record
\* Cleanup said m (in its invocation number n)
Said(m) == \E x \in ui : x.msg = m

SaidIn(n, m) == [n |-> n, msg |-> m] \in ui

\* the error reports of Cleanup
ErrorReports == {"Error getting VM status", "Error stopping VM",
                 "Error waiting for VM to stop", "Error deleting VM"}

\* invocation n sent request q and the call has returned
Sent(n, q) == \E k \in 1 .. Len(requests) : requests[k] = [n |-> n, req |-> q]

\* invocation n of Cleanup has returned, and without any error report
Finished(n) == Len(cleanups) > n \/ (Len(cleanups) = n /\ cpc = "none")

ErrorFree(n) == \A m \in ErrorReports : ~SaidIn(n, m)

\* ------------------------------------------- classification of one error
\* isRetryableError applied to one error value
ClassifyInit ==
    /\ WrapperInit
    /\ MaxRetries = 1
    /\ phase = "classify" /\ step = 0 /\ site = 0 /\ ctxConn = 0
    /\ failure = NoFailure
    /\ cerr \in ErrorValues
    /\ cres = "none" /\ NoWait
    /\ NoPipeline

Classify ==
    /\ phase = "classify" /\ cres = "none"
    /\ cres' = IF isRetryableError(cerr) THEN "retryable" ELSE "terminal"
    /\ UNCHANGED <<wvars, phase, step, site, ctxConn, failure, cerr, cvars,
                   wtvars, fvars>>

ClassifyNext == Classify

SpecClassify == ClassifyInit /\ [][ClassifyNext]_vars

\* ----------------------------------------------- WaitForState on its own
\* the wait of stepCreateVM.waitForVMReady
vmReadyStateChange == [Pending |-> {"image_locked"}, Target |-> {"down"}]

\* the fixed interval WaitForState sleeps between two refresh calls, seconds
PollInterval == 2

\* statuses of a refresh script: pending, target, and one in neither set
StubStatuses == {"image_locked", "down", "up"}

\* what one call of a scripted refresh returns; the snapshot is the number
\* of the call
StubReturns == [status : StubStatuses, err : {"nil", "fault", "timeout"}]

RECURSIVE SeqsOf(_, _)
SeqsOf(S, n) ==
    IF n = 0 THEN {<<>>}
    ELSE LET shorter == SeqsOf(S, n - 1)
         IN  shorter \cup {Append(q, x) : q \in shorter, x \in S}

Stubs == SeqsOf(StubReturns, MaxStub) \ {<<>>}

RefreshCalls == SelectSeq(wlog, LAMBDA x : x.ev = "refresh")
WaitSleeps == SelectSeq(wlog, LAMBDA x : x.ev = "sleep")

\* WaitForState(&vmReadyStateChange) with a scripted refresh
WaitInit ==
    /\ WrapperInit
    /\ MaxRetries = 1
    /\ phase = "wait" /\ step = 0 /\ site = 0 /\ ctxConn = 0
    /\ failure = NoFailure
    /\ cerr = NoError /\ cres = "none"
    /\ stub \in Stubs /\ wlog = <<>> /\ wout = NoOutcome
    /\ cancelSource = FALSE
    /\ fpc = "none" /\ locals = <<>> /\ given = <<>> /\ sent = <<>>
    /\ fret = NoReturn
    /\ NoPipeline

\* the loop invokes conf.Refresh
WaitRefresh ==
    /\ phase = "wait" /\ wout = NoOutcome
    /\ IF wlog = <<>> THEN TRUE ELSE wlog[Len(wlog)].ev = "sleep"
    /\ Len(RefreshCalls) < Len(stub)
    /\ LET n == Len(RefreshCalls) + 1
       IN  wlog' = Append(wlog, [ev |-> "refresh", snap |-> n,
                                 status |-> stub[n].status,
                                 err |-> stub[n].err, d |-> 0])
    /\ UNCHANGED <<wvars, phase, step, site, ctxConn, failure, cerr, cres,
                   cvars, stub, wout, cancelSource, fvars>>

\* what the loop does with the triple the refresh returned
WaitDecide ==
    /\ phase = "wait" /\ wout = NoOutcome
    /\ wlog # <<>> /\ wlog[Len(wlog)].ev = "refresh"
    /\ LET r == wlog[Len(wlog)]
           w == WaitForStateStep(vmReadyStateChange, r.status, r.err,
                                 cancelSource)
       IN  IF w = "sleep"
           THEN /\ wlog' = Append(wlog, [ev |-> "sleep", snap |-> 0,
                                         status |-> "", err |-> "nil",
                                         d |-> PollInterval])
                /\ wout' = wout
           ELSE /\ wout' = [res |-> w,
                            snap |-> IF w = "success" THEN r.snap ELSE 0,
                            err |-> IF w = "refresh error" THEN r.err
                                    ELSE "nil",
                            status |-> IF w = "unexpected state"
                                       THEN r.status ELSE ""]
                /\ wlog' = wlog
    /\ UNCHANGED <<wvars, phase, step, site, ctxConn, failure, cerr, cres,
                   cvars, stub, cancelSource, fvars>>

\* the cancel source fires while the wait is in progress
WaitCancel ==
    /\ phase = "wait" /\ wout = NoOutcome /\ ~cancelSource
    /\ cancelSource' = TRUE
    /\ UNCHANGED <<wvars, phase, step, site, ctxConn, failure, cerr, cres,
                   cvars, stub, wlog, wout, fvars>>

WaitNext == WaitRefresh \/ WaitDecide \/ WaitCancel

SpecWait == WaitInit /\ [][WaitNext]_vars

\* the script of the refresh is k pending statuses, then a target status
PendingThenTarget(k) ==
    /\ k < Len(stub)
    /\ \A i \in 1..k : /\ stub[i].status \in vmReadyStateChange.Pending
                       /\ stub[i].err = "nil"
    /\ stub[k + 1].status \in vmReadyStateChange.Target
    /\ stub[k + 1].err = "nil"

\* --------------------------- stepCreateVM.createVM, disk source, on its own
\* iterations of the polling loop of cloneDisk
MaxDiskPolls == 30

\* ids a listed disk can have
DiskIds == {"disk-2", "disk-3"}

\* what DisksService().List().Search("name=<clone>") can answer: no disk, or
\* a first disk with a status and an id
DiskListings ==
    {[disks |-> 0, status |-> "", id |-> ""],
     [disks |-> 1, status |-> "locked", id |-> "disk-2"]}
        \cup {[disks |-> 1, status |-> "ok", id |-> d] : d \in DiskIds}

NoListing == [disks |-> 0, status |-> "", id |-> ""]

\* how many times request q went out and was answered (ok) or failed
Count(q, ok) ==
    LET k == [req |-> q, ok |-> ok]
    IN  IF k \in DOMAIN sent THEN sent[k] ELSE 0

Sends(q) == Count(q, TRUE) + Count(q, FALSE)

\* sent, with the runs of the operation of the wrapper call that returned
SentAfterCall ==
    LET oks == Cardinality({i \in Ops : trace[i].out = "nil"})
        kos == Cardinality({i \in Ops : trace[i].out # "nil"})
        keys == {k \in {[req |-> op.site, ok |-> TRUE],
                        [req |-> op.site, ok |-> FALSE]} :
                    Count(op.site, k.ok) + (IF k.ok THEN oks ELSE kos) > 0}
    IN  [k \in DOMAIN sent \cup keys |->
            IF k.req = op.site
            THEN Count(op.site, k.ok) + (IF k.ok THEN oks ELSE kos)
            ELSE sent[k]]

\* the call createVM or cloneDisk is at, as an operation closure
CloneClosure(c) ==
    CASE c = "add" -> Closure("vms.Add", "passed")
      [] c = "get" -> Closure("disk.Get", "passed")
      [] c = "copy" -> Closure("disk.Copy", "passed")
      [] c = "list" -> Closure("disks.List", "passed")
      [] c = "attach" -> Closure("vm.diskattachments.Add", "passed")
      [] c = "verify" -> Closure("vm.Get", "passed")

ErrTimedOut == "Timed out waiting for cloned disk to become available"

\* createVM goes on to call c with locals l
CloneGoto(c, l) ==
    [fpc |-> c, locals |-> l, fret |-> NoReturn, failure |-> failure]

\* createVM returns error e to Run, which records it and halts
CreateVMFails(e, l) ==
    [fpc |-> "halted", locals |-> l,
     fret |-> [val |-> "ActionHalt", err |-> e],
     failure |-> [NoFailure EXCEPT !.step = "stepCreateVM",
                                   !.site = "createVM", !.err = e]]

\* a createVM that attaches whatever cloneDisk returned
cloneDiskReturnsUnchecked(id, e, l) ==
    CloneGoto("attach", [l EXCEPT !.cloneRet = [val |-> id, err |-> e]])

\* cloneDisk returns (id, e) to createVM
cloneDiskReturns(id, e, l) ==
    LET m == [l EXCEPT !.cloneRet = [val |-> id, err |-> e]]
    IN  IF e # "nil" THEN CreateVMFails(e, m) ELSE CloneGoto("attach", m)

\* cloneDisk after its polling loop
AfterPolling(l) ==
    IF l.clonedDiskID = ""
    THEN cloneDiskReturns("", ErrTimedOut, l)
    ELSE cloneDiskReturns(l.clonedDiskID, "nil", l)

AfterSourceGet(e, l) ==
    IF e # "nil"
    THEN cloneDiskReturns("", "Error getting source disk information", l)
    ELSE IF given.storageDomain = ""
    THEN cloneDiskReturns("",
             "Could not determine storage domain for source disk", l)
    ELSE CloneGoto("copy", l)

AfterCopy(e, l) ==
    IF e # "nil" THEN cloneDiskReturns("", "Error copying disk", l)
    ELSE CloneGoto("list", l)

\* a loop that takes the first disk listed, whatever its status
AfterListAnyStatus(e, d, l) ==
    LET m == [l EXCEPT !.polls = @ + 1, !.seen = d]
    IN  IF e # "nil" THEN cloneDiskReturns("", "Error listing disks", l)
        ELSE IF d.disks > 0
        THEN AfterPolling([m EXCEPT !.clonedDiskID = d.id])
        ELSE IF l.i + 1 < MaxDiskPolls
        THEN CloneGoto("list", [m EXCEPT !.i = @ + 1, !.nonok = @ + 1])
        ELSE AfterPolling([m EXCEPT !.i = @ + 1, !.nonok = @ + 1])

\* one iteration of the polling loop: the list call returned e and, if it
\* succeeded, the listing d
AfterList(e, d, l) ==
    LET m == [l EXCEPT !.polls = @ + 1, !.seen = d]
    IN  IF e # "nil"
        THEN cloneDiskReturns("", "Error listing disks",
                              [l EXCEPT !.polls = @ + 1])
        ELSE IF d.disks > 0 /\ d.status = "ok"
        THEN AfterPolling([m EXCEPT !.clonedDiskID = d.id])
        ELSE IF l.i + 1 < MaxDiskPolls
        THEN CloneGoto("list", [m EXCEPT !.i = @ + 1, !.nonok = @ + 1])
        ELSE AfterPolling([m EXCEPT !.i = @ + 1, !.nonok = @ + 1])

AfterAttach(e, l) ==
    IF e # "nil" THEN CreateVMFails("Error attaching disk to VM", l)
    ELSE CloneGoto("verify", l)

\* a failed verification is logged only; createVM returns the VM's id
AfterVerify(e, l) ==
    [fpc |-> "created", locals |-> l,
     fret |-> [val |-> given.vmID, err |-> "nil"], failure |-> failure]

\* the Go type of the error value a request or a probe is answered with
TypeOf(e) == IF e = "fault" THEN given.faultType ELSE "*url.Error"

\* the Go type of the error ExecuteWithReconnect returned: lines 101 (the
\* probe's own error) and 152 return the error value they got, every other
\* return makes a new one with fmt.Errorf and "%s"
ReturnedType ==
    IF ret \in {101, 152} /\ err \in Errors THEN TypeOf(err)
    ELSE "*errors.errorString"

\* the template set in the VM that createVM asks for
vmTemplate ==
    IF given.sourceType = "disk" THEN "Blank" ELSE given.sourceID

\* createVM after the VM's Add returned e: a template source's not-found
\* error gets its own message; a disk source goes on to clone the disk
AfterAdd(e, l) ==
    IF e # "nil"
    THEN IF given.sourceType = "template"
            /\ ReturnedType = "*ovirtsdk4.NotFoundError"
         THEN CreateVMFails("Could not find virtual machine template", l)
         ELSE CreateVMFails("Error creating virtual machine", l)
    ELSE IF given.sourceType = "disk"
    THEN CloneGoto("get", [l EXCEPT !.vmID = given.vmID])
    ELSE [fpc |-> "created", locals |-> [l EXCEPT !.vmID = given.vmID],
          fret |-> [val |-> given.vmID, err |-> "nil"], failure |-> failure]

\* an attachment of the source disk itself
diskAttachmentOfSource(l) ==
    [disk |-> given.sourceID,
     interface |-> IF given.storageDriver = "virtio-scsi"
                   THEN "virtio_scsi" ELSE "virtio",
     bootable |-> TRUE, active |-> TRUE]

\* attachDiskToVM: the attachment it asks for, of the disk cloneDisk returned
diskAttachment(l) ==
    [disk |-> l.cloneRet.val,
     interface |-> IF given.storageDriver = "virtio-scsi"
                   THEN "virtio_scsi" ELSE "virtio",
     bootable |-> TRUE, active |-> TRUE]

CloneAfter(c, e, d, l) ==
    CASE c = "add" -> AfterAdd(e, l)
      [] c = "get" -> AfterSourceGet(e, l)
      [] c = "copy" -> AfterCopy(e, l)
      [] c = "list" -> AfterList(e, d, l)
      [] c = "attach" -> AfterAttach(e, l)
      [] c = "verify" -> AfterVerify(e, l)

CloneCalls == {"add", "get", "copy", "list", "attach", "verify"}

\* the builds createVM is run for: a template source whose fault on Add is
\* a not-found error or another one, or a disk source with or without a
\* storage domain and with either storage driver
CreateVMInputs ==
    [vmID : {"vm-1"}, sourceType : {"template"}, sourceID : {"tpl-1"},
     storageDomain : {""}, storageDriver : {"virtio-scsi"},
     faultType : {"*ovirtsdk4.NotFoundError", "*ovirtsdk4.Fault"}]
    \cup
    {[vmID |-> "vm-1", sourceType |-> "disk", sourceID |-> "disk-1",
      storageDomain |-> sd[1], storageDriver |-> sd[2],
      faultType |-> "*ovirtsdk4.Fault"] :
        sd \in {<<"sd-1", "virtio-scsi">>, <<"sd-1", "virtio">>,
                <<"", "virtio">>}}

\* the runs of the returned call's operation whose response was lost
LostRuns == {i \in Ops : trace[i].out = "timeout"}

\* createVM has built the VM object and is about to send its Add
CloneInit ==
    /\ WrapperInit
    /\ MaxRetries = 1
    /\ phase = "createVM" /\ step = 0 /\ site = 0 /\ ctxConn = 1
    /\ failure = NoFailure
    /\ cerr = NoError /\ cres = "none"
    /\ stub = <<>> /\ wlog = <<>> /\ wout = NoOutcome /\ cancelSource = FALSE
    /\ NoPipeline
    /\ fpc = "add"
    /\ locals = [i |-> 0, clonedDiskID |-> "", polls |-> 0, nonok |-> 0,
                 seen |-> NoListing, cloneRet |-> NoReturn, vmID |-> "",
                 vms |-> 0, clones |-> 0, attached |-> {}]
    /\ given \in CreateVMInputs
    /\ sent = <<>>
    /\ fret = NoReturn

\* createVM or cloneDisk calls ExecuteWithReconnect
CloneExecute ==
    /\ phase = "createVM" /\ fpc \in CloneCalls /\ pc = "idle"
    /\ \E t \in Results, r \in ReconnectOutcomes :
          ExecuteBegin(CloneClosure(fpc), t, r)
    /\ UNCHANGED pvars

\* ExecuteWithReconnect returned
CloneReturn ==
    /\ phase = "createVM" /\ fpc \in CloneCalls /\ pc = "returned"
    /\ pc' = "idle"
    /\ \E d \in (IF fpc = "list" /\ err = "nil" THEN DiskListings
                 ELSE {NoListing}) :
          LET g == CloneAfter(fpc, err, d, locals)
              done == Cardinality({i \in Ops : trace[i].out = "nil"})
          IN  /\ fpc' = g.fpc
              /\ \E lost \in 0 .. Cardinality(LostRuns) :
                    locals' =
                        [g.locals EXCEPT
                            !.vms = IF fpc = "add" THEN done + lost ELSE @,
                            !.clones = IF fpc = "copy" THEN done + lost ELSE @,
                            !.attached =
                                IF fpc = "attach" /\ done + lost > 0
                                THEN {diskAttachment(locals)} ELSE @]
              /\ fret' = g.fret
              /\ failure' = g.failure
    /\ sent' = SentAfterCall
    /\ UNCHANGED <<MaxRetries, connection, nBuilt, closed, conn, attempt, err,
                   ret, trace, nCalls, op, svc, lastCall>>
    /\ UNCHANGED <<phase, step, site, ctxConn, clvars, wtvars, given, cvars>>

\* Run has halted and the runner invokes the step's Cleanup, which looks
\* for "vm_id" in the state bag
CloneCleanup ==
    /\ phase = "createVM" /\ fpc = "halted" /\ cleanups = <<>>
    /\ cleanups' = <<"stepCreateVM">>
    /\ cpc' = CleanupEntry
    /\ UNCHANGED <<wvars, phase, step, site, ctxConn, failure, kvars, runs,
                   polls, vmId, templateId, cleanupVM, vm, result, requests,
                   ui>>

CloneNext ==
    \/ CloneExecute
    \/ CloneCleanup
    \/ \E e \in Results : ExecuteOperation(e)
    \/ \E r \in ReconnectOutcomes : ExecuteRetryReconnect(r)
    \/ \E e \in Results : ExecuteRetryOperation(e)
    \/ CloneReturn

SpecClone == CloneInit /\ [][CloneNext]_vars

\* ------------- stepCreateTemplateFromVM.Run and the rest of the pipeline
\* sent, with one more request q, answered (ok) or failed
SentAnd(q, ok) ==
    LET k == [req |-> q, ok |-> ok]
    IN  [x \in DOMAIN sent \cup {k} |-> IF x = k THEN Count(q, ok) + 1
                                        ELSE sent[x]]

\* statuses the VM can be found in
VMStatuses == {"down", "up", "powering_down"}

\* statuses the refresh of the new template can report
TemplateStatuses == {"locked", "image_locked", "ok", "illegal"}

\* ids the created template can have
TemplateIds == {"tpl-1", "tpl-2"}

templateStateChange ==
    [Pending |-> {"locked", "image_locked"}, Target |-> {"ok"}]

\* state.Put("error", e) and ActionHalt; cause is the error e wraps, if any
StepHalts(name, e, cause) ==
    [fpc |-> "halted", fret |-> [val |-> "ActionHalt", err |-> e],
     failure |-> [NoFailure EXCEPT !.step = name, !.site = "Run", !.err = e,
                                   !.cause = cause],
     templateId |-> templateId]

\* ActionHalt with nothing recorded
StepHaltsSilently ==
    [fpc |-> "halted", fret |-> [val |-> "ActionHalt", err |-> "nil"],
     failure |-> failure, templateId |-> templateId]

StepGoes(c) ==
    [fpc |-> c, fret |-> NoReturn, failure |-> failure,
     templateId |-> templateId]

\* a step that creates the template whatever the VM's status
AfterVMStatusAnyStatus(e, s) ==
    IF e # "nil"
    THEN StepHalts("stepCreateTemplateFromVM", "Error getting VM status", e)
    ELSE StepGoes("add")

\* after the status fetch answered e and, if it succeeded, status s
AfterVMStatus(e, s) ==
    IF e # "nil"
    THEN StepHalts("stepCreateTemplateFromVM", "Error getting VM status", e)
    ELSE IF s # "down"
    THEN StepHalts("stepCreateTemplateFromVM",
                   "VM must be stopped before creating template", s)
    ELSE StepGoes("add")

\* after templatesService.Add answered e; returned: the response has a
\* template
AfterTemplateAdd(e, returned) ==
    IF e # "nil"
    THEN StepHalts("stepCreateTemplateFromVM",
                   "Error creating template from VM", e)
    ELSE IF ~returned
    THEN StepHalts("stepCreateTemplateFromVM",
                   "No template returned from creation", "nil")
    ELSE StepGoes("wait")

\* a step that records the template's id whatever the wait returned
AfterTemplateWaitUnchecked(w) ==
    IF w = "sleep" THEN StepGoes("wait")
    ELSE [fpc |-> "continued",
          fret |-> [val |-> "ActionContinue", err |-> "nil"],
          failure |-> failure, templateId |-> TRUE]

\* after an iteration of WaitForState(&templateStateChange) that ended in w
AfterTemplateWait(w) ==
    IF w = "sleep" THEN StepGoes("wait")
    ELSE IF w = "success"
    THEN [fpc |-> "continued",
          fret |-> [val |-> "ActionContinue", err |-> "nil"],
          failure |-> failure, templateId |-> TRUE]
    ELSE StepHalts("stepCreateTemplateFromVM",
                   "Error waiting for template to reach OK state", w)

\* the step is run with a "vm_id" in the state bag, possibly empty
TemplateInit ==
    /\ WrapperInit
    /\ MaxRetries = 1
    /\ phase = "template" /\ step = 0 /\ site = 0 /\ ctxConn = 1
    /\ failure = NoFailure
    /\ cerr = NoError /\ cres = "none"
    /\ stub = <<>> /\ wlog = <<>> /\ wout = NoOutcome /\ cancelSource = FALSE
    /\ runs = <<>> /\ cleanups = <<>> /\ cpc = "none" /\ polls = 0
    /\ vmId \in VMIds
    /\ templateId = FALSE /\ cleanupVM = "nil"
    /\ vm = "none" /\ result = "none" /\ requests = <<>> /\ ui = {}
    /\ fpc = "entry"
    /\ locals = [vmStatus |-> "", templateID |-> "", status |-> "",
                 refreshes |-> 0, sleeps |-> 0, wait |-> "none", k |-> 1,
                 code |-> 0, erefreshes |-> 0, esleeps |-> 0,
                 ewait |-> "none"]
    /\ given \in [exportHost : {"", "host-1"}, export : {"idle"}]
    /\ sent = <<>>
    /\ fret = NoReturn

\* what a step action leaves in the step's own variables
StepTakes(g) ==
    /\ fpc' = g.fpc
    /\ fret' = g.fret
    /\ failure' = g.failure
    /\ templateId' = g.templateId

\* lines 17-25: the "vm_id" entry is read
TemplateEntry ==
    /\ phase = "template" /\ fpc = "entry"
    /\ StepTakes(IF vmId = "" THEN StepHaltsSilently ELSE StepGoes("get"))
    /\ UNCHANGED <<wvars, phase, step, site, ctxConn, clvars, wtvars, locals,
                   given, sent, runs, cleanups, cpc, polls, vmId, cleanupVM,
                   vm, result, requests, ui>>

\* lines 27-50: the VM's status is fetched and checked
TemplateCheckVM ==
    /\ phase = "template" /\ fpc = "get"
    /\ \E e \in Results, s \in VMStatuses :
          /\ StepTakes(AfterVMStatus(e, s))
          /\ locals' = [locals EXCEPT
                           !.vmStatus = IF e = "nil" THEN s ELSE ""]
          /\ sent' = SentAnd("vm.Get", e = "nil")
    /\ UNCHANGED <<wvars, phase, step, site, ctxConn, clvars, wtvars, given,
                   runs, cleanups, cpc, polls, vmId, cleanupVM, vm, result,
                   requests, ui>>

\* lines 52-103: the template is built and the Add request sent
TemplateAdd ==
    /\ phase = "template" /\ fpc = "add"
    /\ \E e \in Results, returned \in BOOLEAN, t \in TemplateIds :
          /\ StepTakes(AfterTemplateAdd(e, returned))
          /\ locals' = [locals EXCEPT
                           !.templateID = IF e = "nil" /\ returned THEN t
                                          ELSE ""]
          /\ sent' = SentAnd("templates.Add", e = "nil")
    /\ UNCHANGED <<wvars, phase, step, site, ctxConn, clvars, wtvars,
                   given, runs, cleanups, cpc, polls, vmId, cleanupVM, vm,
                   result, requests, ui>>

\* lines 105-119: one iteration of the wait for the template
TemplatePoll ==
    /\ phase = "template" /\ fpc = "wait"
    /\ \E e \in Results, s \in TemplateStatuses, cancelled \in BOOLEAN :
          LET w == WaitForStateStep(templateStateChange, s, e, cancelled)
          IN  /\ w = "sleep" => locals.sleeps < MaxPolls
              /\ StepTakes(AfterTemplateWait(w))
              /\ locals' = [locals EXCEPT
                               !.status = IF e = "nil" THEN s ELSE "",
                               !.refreshes = @ + 1,
                               !.sleeps = IF w = "sleep" THEN @ + 1 ELSE @,
                               !.wait = w]
              /\ sent' = SentAnd("template.Get", e = "nil")
    /\ UNCHANGED <<wvars, phase, step, site, ctxConn, clvars, wtvars, given,
                   runs, cleanups, cpc, polls, vmId, cleanupVM, vm, result,
                   requests, ui>>

\* ----------------------------------- stepExportTemplateToOVA.Run follows it
\* the smallest response status the step takes for a failure
MinFailureStatus == 400

\* response statuses of the export POST
StatusCodes == {200, 202, 302, 399, 400, 404, 500, 503}

\* what the engine does with the export it accepted: "requested" (the
\* template is not locked yet), "locked", "done"; "idle" if none
ExportStates == {"idle", "requested", "locked", "done"}

\* the template status a refresh reports while the export is in state x
ExportObserved(x) ==
    IF x = "locked" THEN {"locked", "image_locked"} ELSE {"ok"}

\* a step that waits for the template after any response
AfterPostAnyStatus(e, code) ==
    IF e # "nil"
    THEN StepHalts("stepExportTemplateToOVA", "Error making HTTP request", e)
    ELSE StepGoes("exportwait")

\* after client.Do returned e and, if it succeeded, a response with status
\* code
AfterPost(e, code) ==
    IF e # "nil"
    THEN StepHalts("stepExportTemplateToOVA", "Error making HTTP request", e)
    ELSE IF code >= MinFailureStatus
    THEN StepHalts("stepExportTemplateToOVA",
                   "Export API call failed with status", code)
    ELSE StepGoes("exportwait")

\* the export step returns ActionContinue
ExportContinues ==
    [fpc |-> "finished", fret |-> [val |-> "ActionContinue", err |-> "nil"],
     failure |-> failure, templateId |-> templateId]

\* entry of the export step: lines 38-47
ExportEntered ==
    IF given.exportHost = "" THEN ExportContinues
    ELSE IF ~templateId THEN StepHaltsSilently
    ELSE StepGoes("call")

\* the calls before the POST failed with e, or the host list came back
\* found or empty
AfterExportCall(k, e, found) ==
    IF e # "nil"
    THEN StepHalts("stepExportTemplateToOVA",
                   CASE k = 1 -> "Error getting templates service"
                     [] k = 2 -> "Error accessing template"
                     [] k = 3 -> "Error getting hosts service"
                     [] k = 4 -> "Error searching for host", e)
    ELSE IF k < Len(stepExportTemplateToOVACalls) THEN StepGoes("call")
    ELSE IF ~found
    THEN StepHalts("stepExportTemplateToOVA", "Host not found in OLVM", "nil")
    ELSE StepGoes("post")

\* after an iteration of the wait for the export that ended in w
AfterExportWait(w) ==
    IF w = "sleep" THEN StepGoes("exportwait")
    ELSE IF w = "success" THEN ExportContinues
    ELSE StepHalts("stepExportTemplateToOVA",
                   "Error waiting for template export to complete", w)

ExportEntry ==
    /\ phase = "template" /\ fpc = "continued"
    /\ StepTakes(ExportEntered)
    /\ UNCHANGED <<wvars, phase, step, site, ctxConn, clvars, wtvars, locals,
                   given, sent, runs, cleanups, cpc, polls, vmId, cleanupVM,
                   vm, result, requests, ui>>

\* the four ExecuteWithReconnect calls of lines 52-105
ExportExecute ==
    /\ phase = "template" /\ fpc = "call" /\ pc = "idle"
    /\ \E t \in Results, r \in ReconnectOutcomes :
          ExecuteBegin(stepExportTemplateToOVACalls[locals.k], t, r)
    /\ UNCHANGED pvars

ExportReturn ==
    /\ phase = "template" /\ fpc = "call" /\ pc = "returned"
    /\ pc' = "idle"
    /\ \E found \in BOOLEAN :
          StepTakes(AfterExportCall(locals.k, err, found))
    /\ locals' = [locals EXCEPT
                     !.k = IF err = "nil" /\ @ < Len(stepExportTemplateToOVACalls)
                           THEN @ + 1 ELSE @]
    /\ sent' = SentAfterCall
    /\ UNCHANGED <<MaxRetries, connection, nBuilt, closed, conn, attempt, err,
                   ret, trace, nCalls, op, svc, lastCall>>
    /\ UNCHANGED <<phase, step, site, ctxConn, clvars, wtvars, given, runs,
                   cleanups, cpc, polls, vmId, cleanupVM, vm, result,
                   requests, ui>>

\* lines 119-200: the export request is built and posted; a response below
\* 400 means the engine has taken the export on
ExportPost ==
    /\ phase = "template" /\ fpc = "post" /\ pc = "idle"
    /\ \E e \in Results, code \in StatusCodes :
          /\ StepTakes(AfterPost(e, code))
          /\ locals' = [locals EXCEPT
                           !.code = IF e = "nil" THEN code ELSE 0]
          /\ sent' = SentAnd("POST export", e = "nil")
          /\ given' = [given EXCEPT
                          !.export = IF e = "nil" /\ code < MinFailureStatus
                                     THEN "requested" ELSE @]
    /\ UNCHANGED <<wvars, phase, step, site, ctxConn, clvars, wtvars, runs,
                   cleanups, cpc, polls, vmId, cleanupVM, vm, result,
                   requests, ui>>

\* the engine locks the template for the export it accepted
ExportLocks ==
    /\ phase = "template" /\ given.export = "requested"
    /\ given' = [given EXCEPT !.export = "locked"]
    /\ UNCHANGED <<wvars, phase, step, site, ctxConn, failure, clvars, wtvars,
                   fpc, locals, sent, fret, cvars>>

\* the engine completes the export and unlocks the template
ExportCompletes ==
    /\ phase = "template" /\ given.export = "locked"
    /\ given' = [given EXCEPT !.export = "done"]
    /\ UNCHANGED <<wvars, phase, step, site, ctxConn, failure, clvars, wtvars,
                   fpc, locals, sent, fret, cvars>>

\* lines 206-219: one iteration of the wait for the export
ExportPoll ==
    /\ phase = "template" /\ fpc = "exportwait"
    /\ \E e \in Results, s \in ExportObserved(given.export),
          cancelled \in BOOLEAN :
          LET w == WaitForStateStep(templateStateChange, s, e, cancelled)
          IN  /\ w = "sleep" => locals.esleeps < MaxPolls
              /\ StepTakes(AfterExportWait(w))
              /\ locals' = [locals EXCEPT
                               !.erefreshes = @ + 1,
                               !.esleeps = IF w = "sleep" THEN @ + 1 ELSE @,
                               !.ewait = w]
              /\ sent' = SentAnd("template.Get (refresh)", e = "nil")
    /\ UNCHANGED <<wvars, phase, step, site, ctxConn, clvars, wtvars, given,
                   runs, cleanups, cpc, polls, vmId, cleanupVM, vm, result,
                   requests, ui>>

\* a step halted or the last step continued: Builder.Run returns
TemplateBuilderReturns ==
    /\ phase = "template" /\ fpc \in {"halted", "finished"} /\ result = "none"
    /\ pc = "idle"
    /\ result' = BuilderResult
    /\ UNCHANGED <<wvars, phase, step, site, ctxConn, failure, kvars, runs,
                   cleanups, cpc, polls, vmId, templateId, cleanupVM, vm,
                   requests, ui>>

TemplateNext ==
    \/ TemplateEntry
    \/ TemplateCheckVM
    \/ TemplateAdd
    \/ TemplatePoll
    \/ ExportEntry
    \/ ExportExecute
    \/ \E e \in Results : ExecuteOperation(e)
    \/ \E r \in ReconnectOutcomes : ExecuteRetryReconnect(r)
    \/ \E e \in Results : ExecuteRetryOperation(e)
    \/ ExportReturn
    \/ ExportPost
    \/ ExportLocks
    \/ ExportCompletes
    \/ ExportPoll
    \/ TemplateBuilderReturns

SpecTemplate == TemplateInit /\ [][TemplateNext]_vars

\* --------------------- stepCreateVM.manageNetworkInterfaces, on its own
\* config.NetworkName, and the id of the network of that name
NetworkName == "lan"
NetworkId == "net-1"

\* a vNIC profile as listed: its name and its network's id; its id is its
\* place in the listing
Profiles == [name : {NetworkName, "vp"}, network : {NetworkId, "net-2"}]

ProfileLists == SeqsOf(Profiles, MaxProfiles)

\* the NICs a new VM can have from its template
NicLists == {<<>>, <<"nic-a", "nic-b">>}

\* the first of the places S of a listing, 0 if there is none
FirstOf(S) == IF S = {} THEN 0 ELSE CHOOSE i \in S : \A j \in S : i <= j

\* stepCreateVMFromTemplate.Run: the first profile of that name on the
\* network, and only if there is none the first profile of that name
FirstNamedOnNetwork(ps, name, network) ==
    LET both == FirstOf({i \in 1 .. Len(ps) :
                            ps[i].name = name /\ ps[i].network = network})
    IN  IF both # 0 THEN both
        ELSE FirstOf({i \in 1 .. Len(ps) : ps[i].name = name})

\* manageNetworkInterfaces: the first profile of that name
FirstNamed(ps, name) == FirstOf({i \in 1 .. Len(ps) : ps[i].name = name})

\* config.VnicProfile, defaulting to the network's name
VnicProfileName == IF given.vnicProfile = "" THEN NetworkName
                   ELSE given.vnicProfile

NetClosure(c) ==
    CASE c = "networks" -> Closure("networks.List", "passed")
      [] c = "clusterNetworks" -> Closure("cluster.networks.List", "passed")
      [] c = "profiles" -> Closure("vnicprofiles.List", "passed")
      [] c = "nics" -> Closure("vm.nics.List", "passed")
      [] c = "update" -> Closure("vm.nic.Update", "passed")
      [] c = "add" -> Closure("vm.nics.Add", "passed")

NetCalls == {"networks", "clusterNetworks", "profiles", "nics", "update",
             "add"}

NetGoto(c, l) ==
    [fpc |-> c, locals |-> l, fret |-> NoReturn, failure |-> failure]

\* manageNetworkInterfaces returns error e to Run, which records it and halts
NetFails(e, l) ==
    [fpc |-> "halted", locals |-> l,
     fret |-> [val |-> "ActionHalt", err |-> e],
     failure |-> [NoFailure EXCEPT !.step = "stepCreateVM",
                                   !.site = "manageNetworkInterfaces",
                                   !.err = e]]

\* manageNetworkInterfaces returns nil
NetDone(l) ==
    [fpc |-> "managed", locals |-> l, fret |-> [val |-> "nil", err |-> "nil"],
     failure |-> failure]

\* what a listing call can be answered with: whether the network is in
\* the listing, the vNIC profiles, the VM's NICs
NoResponse == [found |-> FALSE, profiles |-> <<>>, nics |-> <<>>]

NetResponses(c, e) ==
    IF e # "nil" THEN {NoResponse}
    ELSE CASE c \in {"networks", "clusterNetworks"} ->
                 {[NoResponse EXCEPT !.found = b] : b \in BOOLEAN}
           [] c = "profiles" ->
                 {[NoResponse EXCEPT !.profiles = ps] : ps \in ProfileLists}
           [] c = "nics" ->
                 {[NoResponse EXCEPT !.nics = ns] : ns \in NicLists}
           [] OTHER -> {NoResponse}

AfterNetworks(e, d, l) ==
    IF e # "nil" THEN NetFails("Error getting networks", l)
    ELSE IF d.found
    THEN NetGoto("profiles", [l EXCEPT !.network = NetworkId])
    ELSE NetGoto("clusterNetworks", l)

AfterClusterNetworks(e, d, l) ==
    IF e # "nil" THEN NetFails("Error getting cluster networks", l)
    ELSE IF d.found
    THEN NetGoto("profiles", [l EXCEPT !.network = NetworkId])
    ELSE NetFails("Could not find network", l)

AfterProfiles(e, d, l) ==
    LET p == FirstNamed(d.profiles, VnicProfileName)
        m == [l EXCEPT !.profiles = d.profiles]
    IN  IF e # "nil" THEN NetFails("Error getting vNIC profiles", l)
        ELSE IF p = 0 THEN NetFails("Could not find vNIC profile", m)
        ELSE NetGoto("nics", [m EXCEPT !.vnicProfile = p])

\* a function that adds a NIC whatever the VM has
AfterNicsAddsAlways(e, d, l) ==
    IF e # "nil" THEN NetFails("Error getting VM network interfaces", l)
    ELSE NetGoto("add", [l EXCEPT !.nics = d.nics, !.listed = TRUE])

AfterNics(e, d, l) ==
    LET m == [l EXCEPT !.nics = d.nics, !.listed = TRUE]
    IN  IF e # "nil"
        THEN NetFails("Error getting VM network interfaces", l)
        ELSE IF given.sourceType = "template" /\ Len(d.nics) > 0
        THEN NetGoto("update", [m EXCEPT !.nicID = d.nics[1]])
        ELSE NetGoto("add", m)

AfterNicUpdate(e, l) ==
    IF e # "nil" THEN NetFails("Error updating existing NIC", l)
    ELSE NetDone(l)

AfterNicAdd(e, l) ==
    IF e # "nil" THEN NetFails("Error adding NIC to VM", l)
    ELSE NetDone(l)

NetAfter(c, e, d, l) ==
    CASE c = "networks" -> AfterNetworks(e, d, l)
      [] c = "clusterNetworks" -> AfterClusterNetworks(e, d, l)
      [] c = "profiles" -> AfterProfiles(e, d, l)
      [] c = "nics" -> AfterNics(e, d, l)
      [] c = "update" -> AfterNicUpdate(e, l)
      [] c = "add" -> AfterNicAdd(e, l)

\* Run has created the VM and calls manageNetworkInterfaces
NetInit ==
    /\ WrapperInit
    /\ MaxRetries = 1
    /\ phase = "network" /\ step = 0 /\ site = 0 /\ ctxConn = 1
    /\ failure = NoFailure
    /\ cerr = NoError /\ cres = "none"
    /\ stub = <<>> /\ wlog = <<>> /\ wout = NoOutcome /\ cancelSource = FALSE
    /\ NoPipeline
    /\ fpc = "networks"
    /\ locals = [network |-> "", profiles |-> <<>>, vnicProfile |-> 0,
                 nics |-> <<>>, listed |-> FALSE, nicID |-> ""]
    /\ given \in [sourceType : {"template", "disk"}, vnicProfile : {"", "vp"}]
    /\ sent = <<>>
    /\ fret = NoReturn

NetExecute ==
    /\ phase = "network" /\ fpc \in NetCalls /\ pc = "idle"
    /\ \E t \in Results, r \in ReconnectOutcomes :
          ExecuteBegin(NetClosure(fpc), t, r)
    /\ UNCHANGED pvars

NetReturn ==
    /\ phase = "network" /\ fpc \in NetCalls /\ pc = "returned"
    /\ pc' = "idle"
    /\ \E d \in NetResponses(fpc, err) :
          LET g == NetAfter(fpc, err, d, locals)
          IN  /\ fpc' = g.fpc
              /\ locals' = g.locals
              /\ fret' = g.fret
              /\ failure' = g.failure
    /\ sent' = SentAfterCall
    /\ UNCHANGED <<MaxRetries, connection, nBuilt, closed, conn, attempt, err,
                   ret, trace, nCalls, op, svc, lastCall>>
    /\ UNCHANGED <<phase, step, site, ctxConn, clvars, wtvars, given, cvars>>

NetNext ==
    \/ NetExecute
    \/ \E e \in Results : ExecuteOperation(e)
    \/ \E r \in ReconnectOutcomes : ExecuteRetryReconnect(r)
    \/ \E e \in Results : ExecuteRetryOperation(e)
    \/ NetReturn

SpecNetwork == NetInit /\ [][NetNext]_vars

\* ------------------------------------ NewConfig and getVMResources
\* the defaults NewConfig gives vm_vcpu_count and vm_memory_mb
DefaultVcpuCount == 1
DefaultMemoryMB == 1024

\* the CPU count and memory getDiskInfo reports for a disk source
DiskCPUCount == 1
DiskMemoryMB == 1024

\* the memory getTemplateInfo reports for a template whose size rounds to 0
FallbackMemoryMB == 1024

BytesPerMB == 1024 * 1024

\* vm_vcpu_count and vm_memory_mb as written in the build's configuration;
\* 0: left unset
VcpuCounts == {0, 1, 2}
MemoryMBs == {0, 1024, 1536}

\* core counts (0: no topology) and memory sizes in bytes of a template
TemplateCores == {0, 2, 4}
TemplateMemories == {0, 512 * BytesPerMB, 2000 * BytesPerMB}

\* a NewConfig that leaves the CPU count and the memory as given
NewConfigNoDefaults(raw) == raw

\* NewConfig: the decoded configuration with its defaults set
NewConfig(raw) ==
    [raw EXCEPT
        !.VmVcpuCount = IF @ = 0 THEN DefaultVcpuCount ELSE @,
        !.VmMemoryMB = IF @ = 0 THEN DefaultMemoryMB ELSE @]

\* getTemplateInfo: CPU count and memory in MB of template t
getTemplateInfo(t) ==
    LET mb == t.memory \div BytesPerMB
    IN  [CPUCount |-> IF t.cores = 0 THEN 1 ELSE t.cores,
         MemoryMB |-> IF mb = 0 THEN FallbackMemoryMB ELSE mb]

getDiskInfo == [CPUCount |-> DiskCPUCount, MemoryMB |-> DiskMemoryMB]

getSourceResourceInfo(sourceType, t) ==
    IF sourceType = "template" THEN getTemplateInfo(t) ELSE getDiskInfo

\* a getVMResources that always takes the source's values
getVMResourcesOfSource(config, resourceInfo) ==
    [cpuCount |-> resourceInfo.CPUCount, memoryMB |-> resourceInfo.MemoryMB]

getVMResources(config, resourceInfo) ==
    [cpuCount |-> IF config.VmVcpuCount = 0 THEN resourceInfo.CPUCount
                  ELSE config.VmVcpuCount,
     memoryMB |-> IF config.VmMemoryMB = 0 THEN resourceInfo.MemoryMB
                  ELSE config.VmMemoryMB]

\* the VM createVM asks for: one socket of cpuCount cores, memory in bytes
createVMRequest(r) ==
    [cores |-> r.cpuCount, memory |-> r.memoryMB * BytesPerMB]

\* a build's configuration is about to be decoded
ResourcesInit ==
    /\ WrapperInit
    /\ MaxRetries = 1
    /\ phase = "resources" /\ step = 0 /\ site = 0 /\ ctxConn = 1
    /\ failure = NoFailure
    /\ cerr = NoError /\ cres = "none"
    /\ stub = <<>> /\ wlog = <<>> /\ wout = NoOutcome /\ cancelSource = FALSE
    /\ NoPipeline
    /\ fpc = "NewConfig"
    /\ given \in [raw : [VmVcpuCount : VcpuCounts, VmMemoryMB : MemoryMBs],
                  sourceType : {"template", "disk"},
                  template : [cores : TemplateCores,
                              memory : TemplateMemories]]
    /\ locals = [config |-> given.raw,
                 resourceInfo |-> [CPUCount |-> 0, MemoryMB |-> 0],
                 resources |-> [cpuCount |-> 0, memoryMB |-> 0]]
    /\ sent = <<>>
    /\ fret = NoReturn

\* Builder.Prepare: NewConfig
ResourcesNewConfig ==
    /\ phase = "resources" /\ fpc = "NewConfig"
    /\ fpc' = "getSourceResourceInfo"
    /\ locals' = [locals EXCEPT !.config = NewConfig(given.raw)]
    /\ UNCHANGED <<wvars, phase, step, site, ctxConn, failure, clvars, wtvars,
                   given, sent, fret, cvars>>

\* stepCreateVM.Run: getSourceResourceInfo
ResourcesSourceInfo ==
    /\ phase = "resources" /\ fpc = "getSourceResourceInfo"
    /\ fpc' = "getVMResources"
    /\ locals' = [locals EXCEPT
                     !.resourceInfo =
                         getSourceResourceInfo(given.sourceType,
                                               given.template)]
    /\ UNCHANGED <<wvars, phase, step, site, ctxConn, failure, clvars, wtvars,
                   given, sent, fret, cvars>>

\* stepCreateVM.Run: getVMResources
ResourcesGet ==
    /\ phase = "resources" /\ fpc = "getVMResources"
    /\ fpc' = "createVM"
    /\ locals' = [locals EXCEPT
                     !.resources =
                         getVMResources(locals.config, locals.resourceInfo)]
    /\ UNCHANGED <<wvars, phase, step, site, ctxConn, failure, clvars, wtvars,
                   given, sent, fret, cvars>>

\* stepCreateVM.createVM: the VM as built for the Add request
ResourcesCreateVM ==
    /\ phase = "resources" /\ fpc = "createVM"
    /\ fpc' = "built"
    /\ fret' = [val |-> createVMRequest(locals.resources), err |-> "nil"]
    /\ UNCHANGED <<wvars, phase, step, site, ctxConn, failure, clvars, wtvars,
                   locals, given, sent, cvars>>

ResourcesNext ==
    \/ ResourcesNewConfig
    \/ ResourcesSourceInfo
    \/ ResourcesGet
    \/ ResourcesCreateVM

SpecResources == ResourcesInit /\ [][ResourcesNext]_vars

\* what the source offers by default: the template's cores and memory, or
\* 1 vCPU and 1024 MB for a disk
SourceDefault ==
    IF given.sourceType = "template"
    THEN [cores |-> given.template.cores, memory |-> given.template.memory]
    ELSE [cores |-> DiskCPUCount, memory |-> DiskMemoryMB * BytesPerMB]

\* ------------- stepStopVM.Run, and stepCleanupInterfaces.Run following it
\* the wait of stepStopVM for the VM to stop
stateChange == [Pending |-> {"up"}, Target |-> {"down"}]

\* Builder.Prepare: the default of cleanup_interfaces
Prepare(raw) ==
    [raw EXCEPT !.CleanupInterfaces = IF ~@ THEN TRUE ELSE @]

\* the closure of the call the two steps are at
StopClosure(c) ==
    CASE c = "get" -> stepStopVMCalls[1]
      [] c = "stop" -> stepStopVMCalls[2]
      [] c = "refresh" -> Closure("vm.Get (refresh)", "passed")
      [] c = "service" -> stepCleanupInterfacesCalls[1]
      [] c = "list" -> stepCleanupInterfacesCalls[2]
      [] c = "remove" -> stepCleanupInterfacesCalls[3]

\* a stepStopVM that sends Stop whatever status it fetched
AfterStatusStopsAlways(e, s) ==
    IF e # "nil" THEN StepHalts("stepStopVM", "Error getting VM status", e)
    ELSE StepGoes("stop")

\* stepStopVM after its status fetch returned e and, if none, status s
AfterStatus(e, s) ==
    IF e # "nil" THEN StepHalts("stepStopVM", "Error getting VM status", e)
    ELSE IF s = "down" THEN StepGoes("continued")
    ELSE StepGoes("stop")

AfterStopRequest(e) ==
    IF e # "nil" THEN StepHalts("stepStopVM", "Error stopping VM", e)
    ELSE StepGoes("refresh")

\* stepStopVM after a refresh of its wait returned e and, if none, status s
AfterStopWait(e, s, cancelled) ==
    LET w == WaitForStateStep(stateChange, s, e, cancelled)
    IN  CASE w = "success" -> StepGoes("continued")
          [] w = "sleep" -> StepGoes("refresh")
          [] OTHER -> StepHalts("stepStopVM",
                                "Error waiting for VM to stop", w)

\* stepCleanupInterfaces after its "skip" test
InterfacesEntered ==
    IF ~locals.config.CleanupInterfaces THEN StepGoes("finished")
    ELSE StepGoes("service")

\* ... after the list of the VM's interfaces returned e and, if none, the
\* response d (d.ok: it carries a list of interfaces, d.nics)
AfterNicList(e, d) ==
    IF e # "nil"
    THEN StepHalts("stepCleanupInterfaces",
                   "Error getting VM network interfaces", e)
    ELSE IF ~d.ok THEN StepGoes("finished")
    ELSE IF d.nics = <<>> THEN StepGoes("finished")
    ELSE StepGoes("remove")

\* ... after the removal of the first of the interfaces todo returned e
AfterNicRemove(e, todo) ==
    IF e # "nil"
    THEN StepHalts("stepCleanupInterfaces",
                   "Error removing network interface", e)
    ELSE IF Len(todo) > 1 THEN StepGoes("remove")
    ELSE StepGoes("finished")

StopAfter(c, e, s, cancelled, d) ==
    CASE c = "get" -> AfterStatus(e, s)
      [] c = "stop" -> AfterStopRequest(e)
      [] c = "refresh" -> AfterStopWait(e, s, cancelled)
      [] c = "service" ->
            IF e # "nil"
            THEN StepHalts("stepCleanupInterfaces",
                           "Error getting VM service", e)
            ELSE StepGoes("list")
      [] c = "list" -> AfterNicList(e, d)
      [] c = "remove" -> AfterNicRemove(e, locals.todo)

NoNics == [ok |-> FALSE, nics |-> <<>>]

\* the configuration is about to be prepared; the VM is up, shutting down
\* by itself, or down
StopInit ==
    /\ WrapperInit
    /\ MaxRetries = 1
    /\ phase = "stop" /\ step = 0 /\ site = 0 /\ ctxConn = 1
    /\ failure = NoFailure
    /\ cerr = NoError /\ cres = "none"
    /\ stub = <<>> /\ wlog = <<>> /\ wout = NoOutcome /\ cancelSource = FALSE
    /\ runs = <<>> /\ cleanups = <<>> /\ cpc = "none" /\ polls = 0
    /\ vmId = "vm-1" /\ templateId = FALSE /\ cleanupVM = "nil"
    /\ vm \in {"up", "powering_down", "down"}
    /\ result = "none" /\ requests = <<>> /\ ui = {}
    /\ fpc = "Prepare"
    /\ given \in [CleanupInterfaces : BOOLEAN]
    /\ locals = [config |-> given, first |-> "", status |-> "",
                 sleeps |-> 0, wait |-> "none", listed |-> NoNics,
                 todo |-> <<>>, removed |-> {}]
    /\ sent = <<>>
    /\ fret = NoReturn

\* Builder.Prepare, then the runner reaches stepStopVM
StopPrepare ==
    /\ phase = "stop" /\ fpc = "Prepare"
    /\ fpc' = "get"
    /\ locals' = [locals EXCEPT !.config = Prepare(given)]
    /\ UNCHANGED <<wvars, phase, step, site, ctxConn, failure, clvars, wtvars,
                   given, sent, fret, cvars>>

\* stepStopVM returned Continue: stepCleanupInterfaces.Run up to its first
\* call
StopInterfacesEntry ==
    /\ phase = "stop" /\ fpc = "continued"
    /\ StepTakes(InterfacesEntered)
    /\ UNCHANGED <<wvars, phase, step, site, ctxConn, clvars, wtvars, locals,
                   given, sent, runs, cleanups, cpc, polls, vmId, cleanupVM,
                   vm, result, requests, ui>>

StopCalls == {"get", "stop", "refresh", "service", "list", "remove"}

\* a step, or the refresh of the wait, calls ExecuteWithReconnect
StopExecute ==
    /\ phase = "stop" /\ fpc \in StopCalls /\ pc = "idle"
    /\ \E t \in Results, r \in ReconnectOutcomes :
          ExecuteBegin(StopClosure(fpc), t, r)
    /\ UNCHANGED pvars

\* ExecuteWithReconnect returned: a status fetch shows one of the statuses
\* the VM can be seen in, the list the VM's interfaces
StopReturn ==
    /\ phase = "stop" /\ fpc \in StopCalls /\ pc = "returned"
    /\ pc' = "idle"
    /\ \E s \in (IF fpc \in {"get", "refresh"} /\ err = "nil"
                 THEN Observed(vm) ELSE {""}),
          cancelled \in (IF fpc = "refresh" THEN BOOLEAN ELSE {FALSE}),
          d \in (IF fpc = "list" /\ err = "nil"
                 THEN {NoNics} \cup [ok : {TRUE}, nics : NicLists]
                 ELSE {NoNics}) :
          LET g == StopAfter(fpc, err, s, cancelled, d)
              ok == err = "nil"
          IN  /\ StepTakes(g)
              /\ fpc = "refresh" /\ g.fpc = "refresh" =>
                    locals.sleeps < MaxPolls
              /\ locals' =
                    [locals EXCEPT
                        !.first = IF fpc = "get" /\ ok THEN s ELSE @,
                        !.status = IF s # "" THEN s ELSE @,
                        !.sleeps = IF fpc = "refresh" /\ g.fpc = "refresh"
                                   THEN @ + 1 ELSE @,
                        !.wait = IF fpc = "refresh"
                                 THEN WaitForStateStep(stateChange, s, err,
                                                       cancelled)
                                 ELSE @,
                        !.listed = IF fpc = "list" /\ ok THEN d ELSE @,
                        !.todo = IF fpc = "list" /\ ok THEN d.nics
                                 ELSE IF fpc = "remove" /\ ok THEN Tail(@)
                                 ELSE @,
                        !.removed = IF fpc = "remove" /\ ok
                                    THEN @ \cup {Head(locals.todo)} ELSE @]
              /\ vm' = IF s = "down" THEN "down"
                       ELSE IF fpc = "stop" /\ ok THEN "powering_down"
                       ELSE vm
    /\ sent' = SentAfterCall
    /\ UNCHANGED <<MaxRetries, connection, nBuilt, closed, conn, attempt, err,
                   ret, trace, nCalls, op, svc, lastCall>>
    /\ UNCHANGED <<phase, step, site, ctxConn, clvars, wtvars, given, runs,
                   cleanups, cpc, polls, vmId, cleanupVM, result, requests,
                   ui>>

StopNext ==
    \/ StopPrepare
    \/ StopExecute
    \/ \E e \in Results : ExecuteOperation(e)
    \/ \E r \in ReconnectOutcomes : ExecuteRetryReconnect(r)
    \/ \E e \in Results : ExecuteRetryOperation(e)
    \/ StopReturn
    \/ StopInterfacesEntry

SpecStop == StopInit /\ [][StopNext]_vars

\* the message of the classified error contains t in some letter case
Names(t) == Contains(ToLower(cerr.msg), ToLower(t))

\* ------------------------------------------------------------------ C1
\* C1: no remote request of a pipeline step is ever sent on a connection
\* handle that a reconnect has closed: each request goes out on the handle
\* ExecuteWithReconnect passed to the operation for that run.
C1_NoCallOnSupersededHandle ==
    lastCall.site # "none" => ~lastCall.onClosed

\* ------------------------------------------------------------------ C2
\* C2 (as stated): during one call of ExecuteWithReconnect the number of
\* reconnect attempts, the probe's reconnect included, never exceeds
\* MaxRetries (stated here for a positive MaxRetries only).
C2_ReconnectsWithinMaxRetries ==
    InExecute /\ MaxRetries >= 1 => Cardinality(Reconnects) <= MaxRetries

\* C2 (amended): the retry loop of one ExecuteWithReconnect call makes at most
\* max(MaxRetries, 0) reconnect attempts; with the reconnect a failed initial
\* probe triggers, one call makes at most 1 + max(MaxRetries, 0).
C2_ReconnectBudget ==
    InExecute =>
        /\ Cardinality(LoopReconnects) <= Max0(MaxRetries)
        /\ Cardinality(Reconnects) <= 1 + Max0(MaxRetries)
        /\ Cardinality(Reconnects \ LoopReconnects) <= 1

\* a call that reconnected for the probe and then used the whole loop budget
C2_Witness ==
    /\ InExecute /\ Returned /\ MaxRetries >= 1
    /\ Cardinality(Reconnects) = MaxRetries + 1

\* ------------------------------------------------------------------ C3
\* C3 (as stated): the retry loop makes at most MaxRetries attempts in total
\* and the operation is invoked at most 1 + MaxRetries times.
C3_AttemptsWithinMaxRetries ==
    InExecute =>
        /\ Cardinality(LoopReconnects) <= MaxRetries
        /\ Cardinality(Ops) <= 1 + MaxRetries

\* C3 (amended): failed reconnects and re-runs of the operation are counted
\* by one counter: together they number at most max(MaxRetries, 0) in a call,
\* so the operation is invoked at most 1 + max(MaxRetries, 0) times.
C3_SharedAttemptBudget ==
    InExecute /\ Ops # {} =>
        /\ Cardinality({i \in LoopReconnects : FailedReconnect(i)})
             + (Cardinality(Ops) - 1) <= Max0(MaxRetries)
        /\ Cardinality(Ops) <= 1 + Max0(MaxRetries)

\* a call whose budget went partly to a failed reconnect, partly to a re-run
C3_Witness ==
    /\ InExecute /\ ret = 133 /\ MaxRetries >= 2
    /\ \E i \in LoopReconnects : FailedReconnect(i)
    /\ Cardinality({i \in LoopReconnects : FailedReconnect(i)})
         + (Cardinality(Ops) - 1) = MaxRetries

\* ------------------------------------------------------------------ C4
\* C4 (as stated): when the first run failed with a retryable error, exactly
\* one reconnect is performed before the first retried run of the operation.
C4_OneReconnectBeforeRetry ==
    pc = "retry" /\ Cardinality(Ops) = 1 => Cardinality(LoopReconnects) = 1

\* C4 (amended): when the first run failed with a retryable error, exactly one
\* successful reconnect precedes the first retried run, it is the last thing
\* done before that run, and the run gets the handle it installed; failed
\* reconnect attempts, each using up an attempt, may precede it.
C4_OneSuccessfulReconnectBeforeRetry ==
    pc = "retry" /\ Cardinality(Ops) = 1 =>
        /\ trace[FirstOp].out = "timeout"
        /\ Cardinality({i \in LoopReconnects : ~FailedReconnect(i)}) = 1
        /\ Cardinality(LoopReconnects) = attempt
        /\ trace[Len(trace)] = Event("test", conn, "nil")
        /\ trace[Len(trace) - 1] = Event("build", conn, "nil")
        /\ conn = connection
        /\ conn \notin closed
        /\ conn # trace[FirstOp].h

\* the first retried run is about to start after a failed and a successful
\* reconnect
C4_Witness ==
    /\ pc = "retry" /\ Cardinality(Ops) = 1
    /\ Cardinality(LoopReconnects) = 2

\* ------------------------------------------------------------------ C5
\* C5: if the initial probe and the first run of the operation both succeed,
\* ExecuteWithReconnect makes no reconnect and no sleep, runs the operation
\* exactly once and returns success.
C5_CleanCallDoesNothingElse ==
    InExecute /\ Ops # {} /\ trace[1].out = "nil" /\ trace[FirstOp].out = "nil"
    =>  /\ Reconnects = {}
        /\ Sleeps = {}
        /\ Cardinality(Ops) = 1
        /\ Len(trace) = 2
        /\ ret = 156
        /\ err = "nil"

C5_Witness ==
    /\ InExecute /\ ret = 156 /\ trace[1].out = "nil" /\ Len(trace) = 2

\* ------------------------------------------------------------------ C6
\* C6: a non-retryable error of the operation makes ExecuteWithReconnect
\* return an error at once: nothing is called after the failing run (no
\* reconnect, no sleep, no re-run), on the first run and on a re-run alike,
\* whatever attempts remain.
C6_TerminalErrorReturnsAtOnce ==
    \A i \in Ops :
        trace[i].out = "fault" =>
            /\ i = Len(trace)
            /\ Returned
            /\ err = "fault"
            /\ ret = (IF i = FirstOp THEN 152 ELSE 140)
            /\ i = FirstOp => Sleeps = {} /\ LoopReconnects = {}

\* a re-run failed terminally while attempts remained
C6_Witness ==
    /\ ret = 140 /\ attempt < MaxRetries /\ trace[LastOp].out = "fault"

\* ------------------------------------------------------------------ C7
\* C7: ExecuteWithReconnect starts by probing the current handle; a
\* non-retryable probe failure is returned at once and the operation is never
\* run; a retryable one makes it reconnect (close the old handle, build a new
\* one, probe it), and the operation then runs on the new handle (if the
\* reconnect fails its error is returned and the operation is not run).
C7_ProbeFirst ==
    InExecute /\ trace # <<>> =>
        /\ trace[1].ev = "test"
        /\ trace[1].out = "nil" /\ Len(trace) >= 2 =>
               trace[2] = Event("op", trace[1].h, trace[2].out)
        /\ trace[1].out = "fault" =>
               Len(trace) = 1 /\ ret = 101 /\ err = "fault"
        /\ trace[1].out = "timeout" =>
               /\ Len(trace) >= 3
               /\ trace[2] = Event("close", trace[1].h, "nil")
               /\ trace[3].ev = "build"
               /\ trace[3].out = "nil" =>
                      /\ Len(trace) >= 4
                      /\ trace[4].ev = "test" /\ trace[4].h = trace[3].h
                      /\ trace[3].h # trace[1].h
               /\ IF FailedReconnect(3)
                  THEN ret = 101 /\ err # "nil" /\ Ops = {}
                  ELSE /\ pc = "operation" =>
                              conn = trace[3].h /\ conn \notin closed
                       /\ Len(trace) >= 5 =>
                              trace[5] = Event("op", trace[3].h, trace[5].out)

\* the operation ran on the handle built after a retryable probe failure
C7_Witness ==
    /\ InExecute /\ Len(trace) >= 5 /\ trace[1].out = "timeout"
    /\ trace[5].ev = "op" /\ trace[5].h = trace[3].h

\* ------------------------------------------------------------------ C8
\* C8: ExecuteWithReconnect returns success only if the last run of the
\* operation returned success; a call in which no run succeeded, all attempts
\* used up (or none allowed, MaxRetries <= 0), returns an error.
C8_SuccessOnlyAfterSuccessfulRun ==
    InExecute /\ Returned =>
        /\ err = "nil" =>
               Ops # {} /\ LastOp = Len(trace) /\ trace[LastOp].out = "nil"
        /\ (\A i \in Ops : trace[i].out # "nil") => err # "nil"
        /\ ret \in {119, 133, 150} => err # "nil"

\* every attempt was used for a re-run and none succeeded
C8_Witness ==
    /\ InExecute /\ ret = 133 /\ MaxRetries >= 1
    /\ Cardinality(Ops) = 1 + MaxRetries

\* ------------------------------------------------------------------ C9
\* C9: a retryable error raised by a remote call of a step, or by the
\* liveness probe, reaches the failure slot only after the wrapper has used
\* up its budget of MaxRetries reconnect-and-retry attempts.
C9_TransientErrorOnlyAfterBudget ==
    failure # NoFailure /\ failure.cause = "timeout" =>
        failure.attempts >= Max0(MaxRetries)

\* ----------------------------------------------------------------- C10
\* C10: no handle leaks: every reconnect closes the handle it supersedes
\* before it builds a new one, a new handle whose probe fails is closed and
\* not installed, and so at most one handle the wrapper built is unclosed.
C10_NoHandleLeak ==
    /\ Cardinality(OpenHandles) <= 1
    /\ \A i \in Reconnects :
           /\ i > 1
           /\ trace[i - 1].ev = "close"
           /\ trace[i - 1].h \in closed
           /\ trace[i - 1].h # trace[i].h
    /\ \A i \in Idx("test") :
           trace[i].out = "error" =>
               /\ i < Len(trace)
               /\ trace[i + 1] = Event("close", trace[i].h, "nil")
               /\ trace[i].h \in closed
               /\ connection # trace[i].h

\* a failed probe of a new handle, then a successful reconnect
C10_Witness ==
    /\ Cardinality(OpenHandles) = 1
    /\ connection \in OpenHandles
    /\ \E i \in Idx("test") : trace[i].out = "error" /\ trace[i].h < connection

\* ------------------------------------------------------------------ C11
\* C11: isRetryableError returns true for every error of the authentication
\* error type, and for every error whose message contains, in any letter
\* case, one of the listed substrings: the network, malformed-response and
\* auth/session substrings and the markers "HTTP 5", "temporary",
\* "temporarily" and "HTTP 429".
C11_ListedErrorsAreRetryable ==
    cres # "none" /\ (cerr.auth \/ \E t \in ListedSubstrings : Names(t)) =>
        cres = "retryable"

\* ------------------------------------------------------------------ C12
\* C12: isRetryableError returns false for every error that is not of the
\* authentication error type and whose message contains none of the listed
\* substrings, in whatever letter case: such an error is terminal.
C12_UnlistedErrorsAreTerminal ==
    cres # "none" /\ ~cerr.auth /\ (\A t \in ListedSubstrings : ~Names(t)) =>
        cres = "terminal"

\* an HTTP 404 answer has been classified, and as terminal
C12_Witness ==
    /\ cres = "terminal" /\ ~cerr.auth
    /\ Contains(cerr.msg, <<"H", "T", "T", "P", " ", "4", "0", "4">>)
    /\ \A t \in ListedSubstrings : ~Names(t)

\* ------------------------------------------------------------------ C13
\* the order in which the steps are declared, as the claim lists them
C13_DeclaredOrder ==
    <<"stepKeyPair", "stepCreateVM", "stepSetupInitialRun", "StepConnect",
      "StepProvision", "StepCleanupTempKeys", "stepStopVM",
      "stepCleanupInterfaces", "stepCreateTemplateFromVM",
      "stepExportTemplateToOVA">>

\* C13: the steps run strictly in declared order; once a step has halted no
\* later step is started; Cleanup is invoked for the steps whose Run was
\* invoked and for no other, the halting step included, in strict reverse
\* order and at most once each, and for all of them when Builder.Run returns.
C13_RunInOrderCleanupInReverse ==
    /\ [](/\ Len(runs) <= Len(C13_DeclaredOrder)
          /\ \A k \in 1 .. Len(runs) : runs[k] = C13_DeclaredOrder[k]
          /\ Len(cleanups) <= Len(runs)
          /\ \A k \in 1 .. Len(cleanups) :
                 cleanups[k] = runs[Len(runs) + 1 - k]
          /\ (result # "none" => Len(cleanups) = Len(runs)))
    /\ [][phase = "halted" \/ cleanups # <<>> => runs' = runs]_vars

\* stepSetupInitialRun halted, and the three steps started were cleaned up
C13_Witness ==
    /\ result # "none" /\ failure # NoFailure
    /\ runs = <<"stepKeyPair", "stepCreateVM", "stepSetupInitialRun">>
    /\ cleanups = <<"stepSetupInitialRun", "stepCreateVM", "stepKeyPair">>

\* ------------------------------------------------------------------ C14
\* C14: a step that puts an error in the failure slot returns Halt in the
\* same Run, and once the slot is set no further step's Run begins.
C14_NoRunAfterFailure ==
    /\ [](failure # NoFailure => phase # "run")
    /\ [][failure # NoFailure => runs' = runs]_vars

\* stepStopVM recorded an error, and the build returned without having
\* started the steps after it
C14_Witness ==
    /\ result # "none" /\ failure.step = "stepStopVM"
    /\ Len(runs) = 7

\* ------------------------------------------------------------------ C15
\* C15: when the pipeline has completed, Builder.Run returns the error of
\* the failure slot if the slot is set, and an artifact carrying the
\* template id otherwise: it never returns neither.
C15_ArtifactOrFailure ==
    result # "none" /\ runs # <<>> =>
        IF failure # NoFailure THEN result = "error" ELSE result = "artifact"

\* ------------------------------------------------------------------ C16
\* C16: no Cleanup writes the failure slot: from the moment the runner starts
\* the Cleanup calls the slot stays exactly as Run left it, whatever fails in
\* stepCreateVM.Cleanup (status fetch, stop, wait, delete), which only
\* reports to the UI.
C16_CleanupKeepsFailureSlot ==
    [][phase = "cleanup" => failure' = failure]_vars

\* the delete of Cleanup failed and was reported, and the build still
\* returned its artifact
C16_Witness ==
    /\ result = "artifact" /\ failure = NoFailure
    /\ Said("Error deleting VM")

\* ------------------------------------------------------------------ C17
\* C17 (as stated): with a vm_id in the context, a finished Cleanup of
\* stepCreateVM has issued the delete (Remove) if and only if cleanup_vm is
\* true, and when cleanup_vm is not true it has reported that the VM remains.
C17_RemoveIffCleanupEnabled ==
    Len(cleanups) = 1 /\ cpc = "none" /\ vmId # "absent" =>
        /\ Sent(1, "vm.Remove") <=> cleanupVM = "true"
        /\ cleanupVM # "true" => SaidIn(1, "Skipping VM cleanup")

\* C17 (amended): with a vm_id in the context, Cleanup sends Stop only to a
\* VM that is not already stopped and Remove only to a stopped VM and only if
\* cleanup_vm is true; an invocation that returns without an error report
\* has issued Remove if cleanup_vm is true and has otherwise left the VM
\* stopped and reported that it remains. (After a failed status fetch, stop
\* or wait it reports the error and returns without Remove.)
C17_RemoveOnlyIfCleanupEnabled ==
    LET n == Len(cleanups)
    IN  /\ cpc = "remove" \/ Sent(n, "vm.Remove") => cleanupVM = "true"
        /\ cpc = "stop" => vm \notin {"down", "removed"}
        /\ cpc = "remove" => vm = "down"
        /\ n >= 1 /\ cpc = "none" /\ vmId # "absent" /\ ErrorFree(n) =>
               IF cleanupVM = "true"
               THEN Sent(n, "vm.Remove") /\ vm = "removed"
               ELSE /\ SaidIn(n, "Skipping VM cleanup")
                    /\ vm = "down"
                    /\ ~Sent(n, "vm.Remove")

\* with cleanup_vm false, Cleanup stopped a running VM, waited for it and
\* left it in the system, saying so
C17_Witness ==
    /\ Len(cleanups) = 1 /\ cpc = "none" /\ cleanupVM = "false"
    /\ Sent(1, "vm.Stop") /\ ErrorFree(1)
    /\ SaidIn(1, "Skipping VM cleanup") /\ vm = "down"

\* ------------------------------------------------------------------ C18
\* C18: without a vm_id in the context, Cleanup of stepCreateVM issues no
\* remote call at all: no ExecuteWithReconnect call, no Get, Stop or Remove.
C18_NoVmIdNoRemoteCall ==
    vmId = "absent" =>
        /\ cpc = "none" /\ pc = "idle"
        /\ nCalls = 0 /\ trace = <<>> /\ requests = <<>>
        /\ lastCall = NoCall /\ vm = "none"

\* Cleanup was invoked without a vm_id
C18_Witness ==
    vmId = "absent" /\ Len(cleanups) >= 1

\* ------------------------------------------------------------------ C19
\* C19 (as stated): a second invocation of Cleanup, after the first has
\* finished, leaves the remote state as the first left it, sending no Stop
\* and no Remove, and raises no failure.
C19_SecondCleanupChangesNothing ==
    Len(cleanups) = 2 =>
        /\ cpc \in {"none", "get"}
        /\ \A k \in 1 .. Len(requests) : requests[k].req = "vm.Get"
        /\ failure = NoFailure

\* C19 (amended): an invocation of Cleanup that follows one which returned
\* without an error report sends at most the status fetch, no Stop and no
\* Remove, and so leaves the remote state as it found it; no invocation
\* raises a failure.
C19_CleanupAfterCleanCleanup ==
    /\ failure = NoFailure
    /\ Len(cleanups) >= 2 /\ ErrorFree(Len(cleanups) - 1) =>
           /\ cpc \in {"none", "get"}
           /\ \A k \in 1 .. Len(requests) : requests[k].req = "vm.Get"

\* a first invocation stopped the VM and left it; the second fetched the
\* status and returned
C19_Witness ==
    /\ Len(cleanups) = 2 /\ cpc = "none"
    /\ SaidIn(1, "Stopping VM") /\ ErrorFree(1)
    /\ Sent(2, "vm.Get") /\ SaidIn(2, "VM is already stopped")

\* ------------------------------------------------------------------ C20
\* C20 (as stated): WaitForState whose refresh yields k pending statuses and
\* then a target status returns success with the snapshot of the refresh
\* that observed the target, after exactly k + 1 refresh calls and k sleeps.
C20_PendingThenTargetAlwaysSucceeds ==
    \A k \in 0..(MaxStub - 1) :
        wout # NoOutcome /\ PendingThenTarget(k) =>
            /\ wout.res = "success" /\ wout.snap = k + 1
            /\ Len(RefreshCalls) = k + 1
            /\ Len(WaitSleeps) = k

\* C20 (amended): WaitForState whose refresh yields k pending statuses and
\* then a target status, and whose cancel source has not fired, returns
\* success with the snapshot of the refresh that observed the target, after
\* exactly k + 1 refresh calls and k sleeps, each of the fixed interval;
\* cancelled or not, it never calls the refresh more than k + 1 times, and
\* no sleep ever follows a refresh that observed a target status.
C20_PendingThenTargetSucceeds ==
    /\ \A k \in 0..(MaxStub - 1) :
          wout # NoOutcome /\ ~cancelSource /\ PendingThenTarget(k) =>
              /\ wout.res = "success" /\ wout.snap = k + 1
              /\ Len(RefreshCalls) = k + 1
              /\ Len(WaitSleeps) = k
              /\ \A i \in 1..Len(WaitSleeps) : WaitSleeps[i].d = PollInterval
    /\ \A i \in 1..Len(wlog) :
          /\ wlog[i].ev = "refresh" /\ wlog[i].err = "nil"
          /\ wlog[i].status \in vmReadyStateChange.Target
          => i = Len(wlog)
    /\ \A k \in 0..(MaxStub - 1) :
          PendingThenTarget(k) => Len(RefreshCalls) <= k + 1

\* the script [pending, pending, target] was waited through, uncancelled
C20_Witness ==
    /\ PendingThenTarget(2) /\ ~cancelSource
    /\ wout.res = "success" /\ wout.snap = 3
    /\ Len(RefreshCalls) = 3 /\ Len(WaitSleeps) = 2

\* ------------------------------------------------------------------ C21
\* the refresh call that returned last
LastRefresh == RefreshCalls[Len(RefreshCalls)]

\* r is a refresh call that failed, or whose status is in neither set
Aborting(r) ==
    \/ r.err # "nil"
    \/ r.status \notin
          (vmReadyStateChange.Pending \cup vmReadyStateChange.Target)

\* C21: WaitForState makes no refresh call and no sleep after a refresh that
\* returned an error or a status in neither the pending nor the target set;
\* having returned after such a refresh, it has returned the refresh's own
\* error, or an "unexpected state" error naming the status.
C21_AbortsOnFirstBadRefresh ==
    /\ \A i \in 1..Len(wlog) :
          wlog[i].ev = "refresh" /\ Aborting(wlog[i]) => i = Len(wlog)
    /\ wout # NoOutcome /\ LastRefresh.err # "nil" =>
          wout.res = "refresh error" /\ wout.err = LastRefresh.err
    /\ wout # NoOutcome /\ LastRefresh.err = "nil" /\ Aborting(LastRefresh) =>
          wout.res = "unexpected state" /\ wout.status = LastRefresh.status

\* the second refresh of three scripted ones failed and the wait returned
C21_Witness ==
    /\ Len(stub) = 3 /\ Len(RefreshCalls) = 2
    /\ wout.res = "refresh error" /\ wout.err = "timeout"

\* ------------------------------------------------------------------ C22
\* C22: if every list request of cloneDisk's polling is answered, with a
\* non-ok listing at polls 1..N (N < 30) and a disk of status "ok" at poll
\* N + 1, cloneDisk returns the id of that disk after exactly N + 1 list
\* requests; and a poll that observes status "ok" ends the polling at once.
C22_CloneReturnsAtFirstOk ==
    /\ locals.seen.status = "ok" =>
          /\ locals.cloneRet = [val |-> locals.seen.id, err |-> "nil"]
          /\ locals.polls = locals.nonok + 1
          /\ locals.nonok < MaxDiskPolls
          /\ Count("disks.List", FALSE) = 0 =>
                Sends("disks.List") = locals.nonok + 1
    /\ locals.cloneRet.err = "nil" /\ locals.cloneRet.val # "none" =>
          locals.seen.status = "ok"

\* non-ok listings at polls 1 and 2, "ok" at poll 3: the id, three requests
C22_Witness ==
    /\ locals.nonok = 2 /\ locals.seen.status = "ok"
    /\ locals.cloneRet = [val |-> "disk-3", err |-> "nil"]
    /\ Sends("disks.List") = 3

\* ------------------------------------------------------------------ C23
\* C23: cloneDisk polls the disk list at most 30 times; when 30 polls have
\* been answered without a disk of status "ok", it returns the timeout
\* error, and then no disk attachment is requested and stepCreateVM.Run has
\* recorded that error and halted.
C23_CloneTimesOutAfterThirtyPolls ==
    /\ locals.polls <= MaxDiskPolls
    /\ locals.nonok = MaxDiskPolls => locals.cloneRet.err = ErrTimedOut
    /\ locals.cloneRet.err = ErrTimedOut =>
          /\ locals.polls = MaxDiskPolls /\ locals.nonok = MaxDiskPolls
          /\ locals.cloneRet.val = ""
          /\ Sends("vm.diskattachments.Add") = 0
          /\ fpc = "halted"
          /\ fret = [val |-> "ActionHalt", err |-> ErrTimedOut]
          /\ failure.err = ErrTimedOut

\* thirty polls answered, none with status "ok": timed out and halted
C23_Witness ==
    /\ locals.polls = MaxDiskPolls /\ locals.seen.status = "locked"
    /\ locals.cloneRet.err = ErrTimedOut
    /\ fret.val = "ActionHalt" /\ failure.step = "stepCreateVM"

\* ------------------------------------------------------------------ C24
\* C24: when stepCreateTemplateFromVM finds the VM in a status other than
\* "down", it has recorded an error and halted, having fetched the status
\* once and sent no template-create request and no refresh of a wait.
C24_TemplateNeedsStoppedVM ==
    locals.vmStatus \notin {"", "down"} =>
        /\ fpc = "halted" /\ fret.val = "ActionHalt"
        /\ failure.err = "VM must be stopped before creating template"
        /\ Sends("vm.Get") = 1
        /\ Sends("templates.Add") = 0
        /\ locals.refreshes = 0 /\ locals.sleeps = 0
        /\ ~templateId

\* the VM was found up: halted with the error, nothing else sent
C24_Witness ==
    /\ locals.vmStatus = "up" /\ fpc = "halted"
    /\ failure.err = "VM must be stopped before creating template"
    /\ result = "error"

\* ------------------------------------------------------------------ C25
\* C25: "template_id" is in the state bag only if the template-create
\* request succeeded and the last refresh of the wait reported status "ok";
\* when the wait fails, "template_id" is not recorded, the error is, and
\* Builder.Run returns no artifact.
C25_TemplateIdOnlyAfterOk ==
    /\ templateId =>
          /\ Count("templates.Add", TRUE) = 1
          /\ locals.wait = "success" /\ locals.status = "ok"
          /\ locals.templateID \in TemplateIds
    /\ locals.wait \in {"refresh error", "unexpected state", "cancelled"} =>
          /\ ~templateId
          /\ fpc = "halted" /\ failure # NoFailure
          /\ result \in {"none", "error"}

\* the template was locked, then ok: its id is recorded
C25_Witness ==
    /\ templateId /\ locals.sleeps = 1 /\ locals.refreshes = 2
    /\ locals.status = "ok" /\ fpc = "continued"

C27_ContinueOnlyAfterExportDone ==
    locals.code # 0 /\ fpc = "finished" => given.export = "done"

\* ------------------------------------------------------------------ C28
\* C28: the vNIC profile stepCreateVM resolves is the first profile of the
\* wanted name that belongs to the resolved network, and only if there is no
\* such profile the first profile of the wanted name.
C28_ProfileOfNetworkPreferred ==
    locals.vnicProfile # 0 =>
        locals.vnicProfile =
            FirstNamedOnNetwork(locals.profiles, VnicProfileName,
                                locals.network)

\* ------------------------------------------------------------------ C29
\* C29: manageNetworkInterfaces never sends both a NIC update and a NIC add;
\* when it returns without error for a template-sourced VM that has a NIC,
\* exactly one update, of the first NIC, has succeeded and no add was sent;
\* when it returns without error for a disk-sourced VM or a VM without NIC,
\* exactly one add has succeeded and no update was sent.
C29_UpdateFirstNicOrAddOne ==
    /\ Sends("vm.nic.Update") = 0 \/ Sends("vm.nics.Add") = 0
    /\ Sends("vm.nic.Update") > 0 =>
          /\ given.sourceType = "template" /\ locals.nics # <<>>
          /\ locals.nicID = locals.nics[1]
    /\ Sends("vm.nics.Add") > 0 =>
          given.sourceType = "disk" \/ locals.nics = <<>>
    /\ fpc = "managed" =>
          IF given.sourceType = "template" /\ locals.nics # <<>>
          THEN Count("vm.nic.Update", TRUE) = 1 /\ Sends("vm.nics.Add") = 0
          ELSE Count("vm.nics.Add", TRUE) = 1 /\ Sends("vm.nic.Update") = 0

\* a template-sourced VM with two NICs: the first was updated, none added
C29_Witness ==
    /\ fpc = "managed" /\ given.sourceType = "template"
    /\ Len(locals.nics) = 2 /\ locals.nicID = "nic-a"
    /\ Sends("vm.nic.Update") = 1 /\ Sends("vm.nics.Add") = 0

\* ------------------------------------------------------------------ C30
\* C30: the VM asked for has the configured CPU count and memory where the
\* build's configuration gives a nonzero value, and the source's default
\* otherwise: the template's cores and memory for a template source, 1 vCPU
\* and 1024 MB for a disk source.
C30_OverrideElseSourceDefault ==
    fpc = "built" /\ given.template.cores # 0 /\ given.template.memory # 0 =>
        /\ fret.val.cores = IF given.raw.VmVcpuCount # 0
                            THEN given.raw.VmVcpuCount
                            ELSE SourceDefault.cores
        /\ fret.val.memory = IF given.raw.VmMemoryMB # 0
                             THEN given.raw.VmMemoryMB * BytesPerMB
                             ELSE SourceDefault.memory

\* ------------------------------------------------------------------ C33
\* the call before sleep i of the trace is a failed attempt of the retry
\* loop: a reconnect whose Build failed, a reconnect whose new handle failed
\* its Test (and was closed), or a re-run that failed with a retryable error
AfterFailedAttempt(i) ==
    IF i = 1 THEN FALSE
    ELSE LET p == trace[i - 1]
         IN  \/ p.ev = "build" /\ p.out = "error"
             \/ p.ev = "close" /\ i - 3 \in LoopReconnects
                /\ trace[i - 2].ev = "test" /\ trace[i - 2].out = "error"
             \/ p.ev = "op" /\ p.out \in RetryableErrors /\ i - 1 # FirstOp

\* the reconnects of the retry loop made before sleep i
AttemptsBefore(i) == Cardinality({j \in LoopReconnects : j < i})

\* C33: in one ExecuteWithReconnect call every sleep comes right after a
\* failed attempt of the retry loop that is not the last one (never before
\* the loop's first reconnect, never after attempt MaxRetries), so the call
\* sleeps at most MaxRetries - 1 times (not at all when MaxRetries < 2).
C33_SleepOnlyBetweenAttempts ==
    InExecute =>
        /\ \A i \in Sleeps :
              /\ AfterFailedAttempt(i)
              /\ AttemptsBefore(i) < MaxRetries
              /\ i < Len(trace) => trace[i + 1].ev = "close"
        /\ Cardinality(Sleeps) <= Max0(MaxRetries - 1)
        /\ Returned /\ ret \in {119, 133} => trace[Len(trace)].ev # "sleep"

C33_Witness ==
    /\ InExecute /\ Returned /\ ret = 133
    /\ MaxRetries = MaxRetriesBound
    /\ Cardinality(Sleeps) = MaxRetries - 1
    /\ \E i \in Sleeps : trace[i - 1].ev = "op"
    /\ \E i \in Sleeps : trace[i - 1].ev # "op"

\* ------------------------------------------------------------------ C36
\* C36: between calls, and until Close is called, the handle the wrapper
\* holds is an open one, whether the calls so far returned success or an
\* error; a failed reconnect does not leave it holding a closed handle.
C36_HeldHandleIsOpen ==
    pc \in {"idle", "returned"} => connection \notin closed

\* ------------------------------------------------------------------ C35
\* C35: whenever the Run of a step returns Halt, an error has been recorded
\* in the failure slot of the state bag, on every path of the step.
C35_HaltRecordsError ==
    fret.val = "ActionHalt" => failure # NoFailure

\* ------------------------------------------------------------------ C31
\* C31: for a disk source createVM sends its requests in the order VM Add
\* (with the Blank template), disk Copy, disk List until the clone is "ok",
\* attachment Add: each is sent only after the one before it succeeded. The
\* disk attached is the clone the listing showed as "ok", bootable, active,
\* with the interface of the configured storage driver; the source disk is
\* never attached.
C31_AddCopyPollAttachClone ==
    given.sourceType = "disk" =>
        /\ vmTemplate = "Blank"
        /\ fpc \in {"get", "copy", "list", "attach", "verify", "created"}
              \/ Sends("disk.Get") > 0 =>
                 Count("vms.Add", TRUE) = 1 /\ locals.vms >= 1
        /\ fpc \in {"list", "attach", "verify", "created"}
              \/ Sends("disks.List") > 0 =>
                 Count("disk.Copy", TRUE) = 1 /\ locals.clones >= 1
        /\ fpc \in {"attach", "verify", "created"}
              \/ Sends("vm.diskattachments.Add") > 0 =>
                 /\ locals.seen.status = "ok"
                 /\ Count("disks.List", TRUE) >= 1
        /\ fpc \in {"verify", "created"} =>
              Count("vm.diskattachments.Add", TRUE) = 1
        /\ \A a \in locals.attached :
              /\ a.disk = locals.seen.id /\ a.disk \in DiskIds
              /\ a.disk # given.sourceID
              /\ a.bootable /\ a.active
              /\ a.interface = (IF given.storageDriver = "virtio-scsi"
                                THEN "virtio_scsi" ELSE "virtio")

\* a disk build with the virtio driver went through: clone disk-3 attached
C31_Witness ==
    /\ given.sourceType = "disk" /\ given.storageDriver = "virtio"
    /\ fpc = "created" /\ locals.nonok = 1
    /\ locals.attached = {[disk |-> "disk-3", interface |-> "virtio",
                           bootable |-> TRUE, active |-> TRUE]}

\* ------------------------------------------------------------------ C34
\* C34: when createVM's Add of the VM succeeded and the step then failed,
\* the Cleanup of the step reaches that VM: it has its id and sends its
\* requests about it (status fetch, Stop, Remove).
C34_CreatedVMReachedByCleanup ==
    /\ given.sourceType = "disk" /\ Count("vms.Add", TRUE) = 1
    /\ fpc = "halted" /\ cleanups # <<>>
    => vmId # "absent" /\ cpc # "none"

\* ------------------------------------------------------------------ C37
\* C37: a non-retryable error of the operation comes back from
\* ExecuteWithReconnect with its own type, on the first run and on a re-run
\* alike; so a template build whose Add of the VM is answered with a
\* not-found error fails with "Could not find virtual machine template".
C37_TerminalErrorKeepsItsType ==
    /\ fpc = "halted" /\ Sends("disk.Get") = 0 /\ Ops # {}
    /\ given.sourceType = "template"
    => (trace[LastOp].out = "fault" =>
           /\ ReturnedType = given.faultType
           /\ given.faultType = "*ovirtsdk4.NotFoundError" =>
                 failure.err = "Could not find virtual machine template")

\* ------------------------------------------------------------------ C38
\* C38: the remote side creates at most one VM and at most one clone of the
\* source disk for a build, also when a response is lost and the request is
\* run again.
C38_OneVMAndOneClone ==
    locals.vms <= 1 /\ locals.clones <= 1

\* ------------------------------------------------------------------ C32
\* C32: a build configured with cleanup_interfaces = false removes no
\* interface of the VM; with cleanup_interfaces = true, when
\* stepCleanupInterfaces has returned Continue every interface the VM was
\* listed with has been removed.
C32_InterfacesRemovedIffConfigured ==
    /\ ~given.CleanupInterfaces =>
          Sends("vm.nic.Remove") = 0 /\ locals.removed = {}
    /\ given.CleanupInterfaces /\ fpc = "finished" =>
          /\ locals.listed.ok =>
                locals.removed = Range(locals.listed.nics)
          /\ locals.todo = <<>>

\* ------------------------------------------------------------------ C39
\* C39: once stepStopVM has sent Stop, its wait for the VM does not fail on
\* a status the VM shows on its way down: if every refresh succeeded and the
\* wait was not cancelled, the step does not halt.
C39_WaitSurvivesTheWayDown ==
    locals.wait \notin {"none", "refresh error", "cancelled"} =>
        failure.step # "stepStopVM"

\* ------------------------------------------------------------------ C40
\* C40: stepStopVM sends Stop only after fetching a status other than
\* "down", and when it has returned Continue the last status it saw, in its
\* fetch or in its wait, is "down"; stepCleanupInterfaces, and so template
\* creation, start only after that.
C40_ContinueOnlyWhenDown ==
    /\ Sends("vm.Stop") > 0 => locals.first \notin {"", "down"}
    /\ locals.first = "down" =>
          Sends("vm.Stop") = 0 /\ locals.wait = "none"
    /\ fpc \in {"continued", "service", "list", "remove", "finished"}
          \/ Sends("vm.nics.List") > 0 =>
             /\ locals.status = "down"
             /\ locals.wait \in {"none", "success"}
             /\ failure = NoFailure \/ failure.step # "stepStopVM"

\* Stop was sent for a VM found up and the wait saw it down after a sleep
C40_Witness ==
    /\ fpc = "continued" /\ locals.first = "up" /\ locals.status = "down"
    /\ Count("vm.Stop", TRUE) = 1 /\ locals.sleeps = 1
    /\ locals.wait = "success"

====
